---- MODULE Spec2Model ----
(***************************************************************************)
(* wadachi-cpu: an interpreting emulator of RV32I + Zicsr.                 *)
(*                                                                         *)
(* The processor (src/src/processor.rs), the decoder (src/src/decode.rs),  *)
(* the CSR file (src/src/csr.rs) and the byte-vector memory                *)
(* (src/src/memory.rs) as one state machine.  The host calls set_pc, load  *)
(* and tick on a processor built by Processor::new.                        *)
(*                                                                         *)
(* A u32 is the pair <<hi, lo>> of its two 16-bit halves, because a 32-bit *)
(* unsigned value does not fit the integers of the model checker.  u16, u8 *)
(* and usize values that stay small are plain naturals.                    *)
(***************************************************************************)
EXTENDS Integers, Sequences, FiniteSets, TLC

VARIABLES
    pc,               \* Processor.pc: u32
    regs,             \* Processor.regs: [u32; 32]
    csr,              \* Processor.csr.registers, the non-zero entries only
    mem,              \* VectorMemory.memory: Vec<u8>, indexed from 0
    mode,             \* Processor.mode
    has_jumped,       \* Processor.has_jumped
    overflow_checks,  \* build profile: arithmetic overflow panics (debug) or wraps (release)
    program,          \* the image the host hands to load, the word it hands to decode
    call_args,        \* the other arguments of the last call
    res,              \* what the last call returned: "Ok", a trap, or "panic" (process aborted)
    call,             \* the last call: "new", "set_pc", "load", "tick", "decode", "read", "write"
    decoded,          \* what decode returned in the last call, NoInst if it was not reached
    old,              \* the processor as it was when the last call started
    setup,            \* number of set_pc and load calls made so far
    ticks             \* number of ticks made so far

vars == <<pc, regs, csr, mem, mode, has_jumped, overflow_checks, program, call_args,
          res, call, decoded, old, setup, ticks>>

---------------------------------------------------------------------------
(* 32-bit words as pairs of 16-bit halves *)

W(hi, lo) == <<hi, lo>>

\* a natural below 2^31 as a u32 (`as u32` of a u16 or a small usize)
U32(n) == <<n \div 65536, n % 65536>>

Zero == <<0, 0>>

Pow2(n) == 2 ^ n

\* bit i (0 = least significant) of a word
Bit(w, i) == IF i < 16 THEN (w[2] \div Pow2(i)) % 2 ELSE (w[1] \div Pow2(i - 16)) % 2

\* the naturals below 2^16 whose bit i is f[i + off]
HalfOf(f, off) ==
    LET s[k \in 0..16] == IF k = 0 THEN 0 ELSE s[k - 1] + f[k - 1 + off] * Pow2(k - 1)
    IN  s[16]

\* the word whose bit i is f[i]
FromBits(f) == <<HalfOf(f, 16), HalfOf(f, 0)>>

\* u32 & | ^ !
BitAnd(a, b) == FromBits([i \in 0..31 |-> Bit(a, i) * Bit(b, i)])
BitOr(a, b) == FromBits([i \in 0..31 |-> IF Bit(a, i) + Bit(b, i) > 0 THEN 1 ELSE 0])
BitXor(a, b) == FromBits([i \in 0..31 |-> (Bit(a, i) + Bit(b, i)) % 2])
BitNot(a) == FromBits([i \in 0..31 |-> 1 - Bit(a, i)])

\* u32 << n, u32 >> n and i32 >> n for 0 <= n <= 31
Shl(a, n) == FromBits([i \in 0..31 |-> IF i >= n THEN Bit(a, i - n) ELSE 0])
Shr(a, n) == FromBits([i \in 0..31 |-> IF i + n <= 31 THEN Bit(a, i + n) ELSE 0])
Sar(a, n) == FromBits([i \in 0..31 |-> IF i + n <= 31 THEN Bit(a, i + n) ELSE Bit(a, 31)])

\* u32::wrapping_add, u32::wrapping_sub
wrapping_add(a, b) ==
    LET lo == a[2] + b[2]
        hi == a[1] + b[1] + lo \div 65536
    IN  <<hi % 65536, lo % 65536>>
wrapping_sub(a, b) == wrapping_add(a, wrapping_add(BitNot(b), <<0, 1>>))

\* a + b on u32 leaves the u32 range
AddOverflowsU32(a, b) == a[1] + b[1] + (a[2] + b[2]) \div 65536 >= 65536

\* a + b on i32 (the operands reinterpreted, `as i32`) leaves the i32 range
AddOverflowsI32(a, b) ==
    /\ Bit(a, 31) = Bit(b, 31)
    /\ Bit(wrapping_add(a, b), 31) # Bit(a, 31)

\* u32 < u32, and i32 < i32 of the reinterpreted operands
LtU(a, b) == a[1] < b[1] \/ (a[1] = b[1] /\ a[2] < b[2])
LtS(a, b) ==
    IF Bit(a, 31) # Bit(b, 31) THEN Bit(a, 31) = 1 ELSE LtU(a, b)

\* u32 % 4 != 0
Misaligned4(a) == a[2] % 4 # 0

\* bit_field::BitField::get_bits(lo..hi) of a u32, as a natural (hi - lo <= 20)
get_bits(w, lo, hi) ==
    LET s[k \in 0..(hi - lo)] ==
            IF k = 0 THEN 0 ELSE s[k - 1] + Bit(w, lo + k - 1) * Pow2(k - 1)
    IN  s[hi - lo]

---------------------------------------------------------------------------
(* decode.rs: the decoder *)

RType_new(instruction) ==
    [rd  |-> get_bits(instruction, 7, 12),
     rs1 |-> get_bits(instruction, 15, 20),
     rs2 |-> get_bits(instruction, 20, 25)]

\* imm: u16
IType_new(instruction) ==
    [rd  |-> get_bits(instruction, 7, 12),
     rs1 |-> get_bits(instruction, 15, 20),
     imm |-> get_bits(instruction, 20, 32)]

\* imm: u16
SType_new(instruction) ==
    [rs1 |-> get_bits(instruction, 15, 20),
     rs2 |-> get_bits(instruction, 20, 25),
     imm |-> get_bits(instruction, 7, 12) + get_bits(instruction, 25, 32) * Pow2(5)]

\* imm: u16
\* BType::new with inst[7] and inst[31] taken in each other's place
BType_new_swapped(instruction) ==
    [rs1 |-> get_bits(instruction, 15, 20),
     rs2 |-> get_bits(instruction, 20, 25),
     imm |-> (get_bits(instruction, 8, 12)
              + get_bits(instruction, 25, 31) * Pow2(4)
              + get_bits(instruction, 31, 32) * Pow2(10)
              + get_bits(instruction, 7, 8) * Pow2(11)) * 2]

BType_new(instruction) ==
    [rs1 |-> get_bits(instruction, 15, 20),
     rs2 |-> get_bits(instruction, 20, 25),
     imm |-> (get_bits(instruction, 8, 12)
              + get_bits(instruction, 25, 31) * Pow2(4)
              + get_bits(instruction, 7, 8) * Pow2(10)
              + get_bits(instruction, 31, 32) * Pow2(11)) * 2]

\* imm: u32
UType_new(instruction) ==
    [rd  |-> get_bits(instruction, 7, 12),
     imm |-> Shl(U32(get_bits(instruction, 12, 32)), 12)]

\* imm: u32
JType_new(instruction) ==
    [rd  |-> get_bits(instruction, 7, 12),
     imm |-> U32((get_bits(instruction, 21, 31)
                  + get_bits(instruction, 20, 21) * Pow2(10)
                  + get_bits(instruction, 12, 20) * Pow2(11)
                  + get_bits(instruction, 31, 32) * Pow2(19)) * 2)]

\* the results of decode: Ok(Instruction), Err(Exception), or panic!
Decoded(op, args) == [res |-> "Ok", op |-> op, args |-> args]
DecodeErr(e) == [res |-> e]
DecodePanic == [res |-> "panic"]

decode(instruction) ==
    LET opcode == get_bits(instruction, 0, 7)
        funct3 == get_bits(instruction, 12, 15)
        funct7 == get_bits(instruction, 25, 32)
        R(op) == Decoded(op, RType_new(instruction))
        I(op) == Decoded(op, IType_new(instruction))
        S(op) == Decoded(op, SType_new(instruction))
        B(op) == Decoded(op, BType_new(instruction))
        Illegal == DecodeErr("IllegalInstruction")
    IN  CASE opcode = 51 ->                               \* 0b0110011
              (CASE funct3 = 0 -> (CASE funct7 = 0  -> R("Add")
                                     [] funct7 = 32 -> R("Sub")
                                     [] OTHER -> DecodePanic)
                 [] funct3 = 1 -> R("Sll")
                 [] funct3 = 2 -> R("Slt")
                 [] funct3 = 3 -> R("Sltu")
                 [] funct3 = 4 -> R("Xor")
                 [] funct3 = 5 -> (CASE funct7 = 0  -> R("Srl")
                                     [] funct7 = 32 -> R("Sra")
                                     [] OTHER -> DecodePanic)
                 [] funct3 = 6 -> R("Or")
                 [] funct3 = 7 -> R("And")
                 [] OTHER -> Illegal)
          [] opcode = 103 ->                              \* 0b1100111
               IF IType_new(instruction).imm % 4 # 0
               THEN DecodeErr("InstructionAddressMisaligned")
               ELSE I("Jalr")
          [] opcode = 19 ->                               \* 0b0010011
              (CASE funct3 = 0 -> I("Addi")
                 [] funct3 = 1 -> I("Slli")
                 [] funct3 = 2 -> I("Slti")
                 [] funct3 = 3 -> I("Sltiu")
                 [] funct3 = 4 -> I("Xori")
                 [] funct3 = 5 -> (CASE funct7 = 0  -> I("Srli")
                                     [] funct7 = 32 -> I("Srai")
                                     [] OTHER -> Illegal)
                 [] funct3 = 6 -> I("Ori")
                 [] funct3 = 7 -> I("Andi")
                 [] OTHER -> Illegal)
          [] opcode = 3 ->                                \* 0b0000011
              (CASE funct3 = 0 -> I("Lb")
                 [] funct3 = 1 -> I("Lh")
                 [] funct3 = 2 -> I("Lw")
                 [] funct3 = 4 -> I("Lbu")
                 [] funct3 = 5 -> I("Lhu")
                 [] OTHER -> Illegal)
          [] opcode = 115 ->                              \* 0b1110011
              (CASE funct3 = 1 -> I("Csrrw")
                 [] funct3 = 2 -> I("Csrrs")
                 [] funct3 = 3 -> I("Csrrc")
                 [] funct3 = 5 -> I("Csrrwi")
                 [] funct3 = 6 -> I("Csrrsi")
                 [] funct3 = 7 -> I("Csrrci")
                 [] OTHER -> Illegal)
          [] opcode = 35 ->                               \* 0b0100011
              (CASE funct3 = 0 -> S("Sb")
                 [] funct3 = 1 -> S("Sh")
                 [] funct3 = 2 -> S("Sw")
                 [] OTHER -> Illegal)
          [] opcode = 99 ->                               \* 0b1100011
              (CASE funct3 = 0 -> B("Beq")
                 [] funct3 = 1 -> B("Bne")
                 [] funct3 = 4 -> B("Blt")
                 [] funct3 = 5 -> B("Bge")
                 [] funct3 = 6 -> B("Bltu")
                 [] funct3 = 7 -> B("Bgeu")
                 [] OTHER -> Illegal)
          [] opcode = 111 -> Decoded("Jal", JType_new(instruction))    \* 0b1101111
          [] opcode = 55  -> Decoded("Lui", UType_new(instruction))    \* 0b0110111
          [] opcode = 23  -> Decoded("Auipc", UType_new(instruction))  \* 0b0010111
          [] OTHER -> Illegal

---------------------------------------------------------------------------
(* memory.rs: VectorMemory.  A memory is a function from 0..len-1 to bytes. An
   address is a u32 widened to usize; an index outside the vector panics. *)

\* Memory::len (below 2^16 in this model)
MemLen(m) == Cardinality(DOMAIN m)

\* the n bytes at addr.. are inside the vector
InBounds(m, addr, n) == addr[1] = 0 /\ addr[2] + n <= MemLen(m)

\* VectorMemory::new(size)
VectorMemory_new(size) == [a \in 0..(size - 1) |-> 0]

read_lb(m, addr) == m[addr[2]]
read_lh(m, addr) == m[addr[2]] + m[addr[2] + 1] * 256
\* big-endian word, as a u32
read_bw(m, addr) ==
    <<m[addr[2]] * 256 + m[addr[2] + 1], m[addr[2] + 2] * 256 + m[addr[2] + 3]>>
\* a word read with the most significant byte first
read_lw_big_endian(m, addr) ==
    <<m[addr[2]] * 256 + m[addr[2] + 1], m[addr[2] + 2] * 256 + m[addr[2] + 3]>>

\* little-endian word, as a u32
read_lw(m, addr) ==
    <<m[addr[2] + 3] * 256 + m[addr[2] + 2], m[addr[2] + 1] * 256 + m[addr[2]]>>

\* val: u8
write_lb(m, addr, val) == [m EXCEPT ![addr[2]] = val]
\* val: u16
write_lh(m, addr, val) ==
    [m EXCEPT ![addr[2]] = val % 256, ![addr[2] + 1] = val \div 256]
\* a word stored with the least significant byte first
write_bw_little_endian(m, addr, val) ==
    [m EXCEPT ![addr[2]]     = val[2] % 256,
              ![addr[2] + 1] = val[2] \div 256,
              ![addr[2] + 2] = val[1] % 256,
              ![addr[2] + 3] = val[1] \div 256]

\* val: u32
write_bw(m, addr, val) ==
    [m EXCEPT ![addr[2]]     = val[1] \div 256,
              ![addr[2] + 1] = val[1] % 256,
              ![addr[2] + 2] = val[2] \div 256,
              ![addr[2] + 3] = val[2] % 256]
write_lw(m, addr, val) ==
    [m EXCEPT ![addr[2]]     = val[2] % 256,
              ![addr[2] + 1] = val[2] \div 256,
              ![addr[2] + 2] = val[1] % 256,
              ![addr[2] + 3] = val[1] \div 256]

---------------------------------------------------------------------------
(* csr.rs: the CSR file.  The 4096 registers are kept as the function of the
   non-zero ones; a register outside its domain holds 0. *)

CSR_NUM == 4096

\* Mode as usize
ModeCode(m) == CASE m = "User" -> 0 [] m = "Supervisor" -> 1 [] m = "Machine" -> 3

\* Csr::new
Csr_new == << >>

\* self.registers[addr]
CsrReg(c, addr) == IF addr \in DOMAIN c THEN c[addr] ELSE Zero

\* a store that decodes only the low 8 bits of the address
CsrStore_aliased(c, addr, value) ==
    [a \in (DOMAIN c \ {addr % 256}) \cup (IF value = Zero THEN {} ELSE {addr % 256}) |->
        IF a = addr % 256 THEN value ELSE c[a]]

\* self.registers[addr] = value
CsrStore(c, addr, value) ==
    [a \in (DOMAIN c \ {addr}) \cup (IF value = Zero THEN {} ELSE {addr}) |->
        IF a = addr THEN value ELSE c[a]]

is_valid_addr(addr) == IF addr >= CSR_NUM THEN "IllegalInstruction" ELSE "Ok"

\* is_valid_mode without the comparison: every mode may access every address
is_valid_mode_any(addr, m) == "Ok"

\* addr.get_bits(8..10)
is_valid_mode(addr, m) ==
    IF ModeCode(m) < (addr \div 256) % 4 THEN "IllegalInstruction" ELSE "Ok"

\* Csr::read: [r |-> "Ok", v |-> value] or [r |-> trap]
Csr_read(c, addr, m) ==
    IF is_valid_addr(addr) # "Ok" THEN [r |-> is_valid_addr(addr), v |-> Zero]
    ELSE IF is_valid_mode(addr, m) # "Ok" THEN [r |-> is_valid_mode(addr, m), v |-> Zero]
    ELSE [r |-> "Ok", v |-> CsrReg(c, addr)]

\* Csr::write without the read-only test
Csr_write_stores(c, addr, value, m) ==
    IF is_valid_addr(addr) # "Ok" THEN [r |-> is_valid_addr(addr), c |-> c]
    ELSE IF is_valid_mode(addr, m) # "Ok" THEN [r |-> is_valid_mode(addr, m), c |-> c]
    ELSE [r |-> "Ok", c |-> CsrStore(c, addr, value)]

\* Csr::write: [r |-> "Ok" or trap, c |-> the registers afterwards]
Csr_write(c, addr, value, m) ==
    IF is_valid_addr(addr) # "Ok" THEN [r |-> is_valid_addr(addr), c |-> c]
    ELSE IF is_valid_mode(addr, m) # "Ok" THEN [r |-> is_valid_mode(addr, m), c |-> c]
    ELSE IF (addr \div 1024) % 4 = 3 THEN [r |-> "Ok", c |-> c]
    ELSE [r |-> "Ok", c |-> CsrStore(c, addr, value)]

---------------------------------------------------------------------------
(* processor.rs: the execution engine.  A processor value p is the record
   [pc, regs, csr, mem, mode, has_jumped]; an executor returns the outcome
   [p |-> the processor afterwards, r |-> "Ok", a trap, or "panic"]. *)

Ok(p) == [p |-> p, r |-> "Ok"]
\* a trap that hands the processor to User mode
Err_leaves_machine_mode(p, e) == [p |-> [p EXCEPT !.mode = "User"], r |-> e]
Err(p, e) == [p |-> p, r |-> e]
Panic(p) == [p |-> p, r |-> "panic"]

\* Processor::new with the processor created in User mode
Processor_new_in_user_mode(memory) ==
    [pc |-> Zero, regs |-> [i \in 0..31 |-> Zero], csr |-> Csr_new,
     mem |-> memory, mode |-> "User", has_jumped |-> FALSE]

\* Processor::new
Processor_new(memory) ==
    [pc |-> Zero, regs |-> [i \in 0..31 |-> Zero], csr |-> Csr_new,
     mem |-> memory, mode |-> "Machine", has_jumped |-> FALSE]

\* Processor::set_pc
set_pc(p, new_pc) ==
    IF Misaligned4(new_pc) THEN Panic(p) ELSE Ok([p EXCEPT !.pc = new_pc])

read_reg(p, idx) == IF idx = 0 THEN Zero ELSE p.regs[idx]

\* write_reg without the idx != 0 guard: x0 is stored like any other register
write_reg_unguarded(p, idx, val) == [p EXCEPT !.regs[idx] = val]

\* a register write that keeps only four bits of the index
write_reg_four_bit_index(p, idx, val) ==
    IF idx # 0 THEN [p EXCEPT !.regs[idx % 16] = val] ELSE p

write_reg(p, idx, val) == IF idx # 0 THEN [p EXCEPT !.regs[idx] = val] ELSE p

read_csr(p, addr) == Csr_read(p.csr, addr, p.mode)

write_csr(p, addr, value) == Csr_write(p.csr, addr, value, p.mode)

\* a + b on u32 panics in a build with overflow checks, and wraps in one without
AddPanicsU32(a, b) == overflow_checks /\ AddOverflowsU32(a, b)
AddPanicsI32(a, b) == overflow_checks /\ AddOverflowsI32(a, b)

\* x << rv and x >> rv with rv: u32 panic in a build with overflow checks when
\* rv >= 32, and shift by rv % 32 in one without
ShiftPanics(rv) == overflow_checks /\ (rv[1] # 0 \/ rv[2] >= 32)
ShiftAmount(rv) == rv[2] % 32

\* bool as u32
BoolU32(b) == IF b THEN <<0, 1>> ELSE Zero

\* a widening that does not look at bit 11
sign_extend_zero_extends(val) == U32(val)

\* val: u16
sign_extend(val) ==
    IF (val \div 2048) % 2 # 0
    THEN BitOr(U32(val), W(\hFFFF, \hF000))
    ELSE U32(val)

\* value: u32; the i32 result is kept as its u32 bit pattern
sign_extend_20bit(value) ==
    IF BitAnd(value, W(\hFFF8, \h0000)) # Zero
    THEN BitOr(value, W(\hFFF0, \h0000))
    ELSE value

\* an addition that stops at 0xFFFFFFFF instead of wrapping
inst_add_saturating(p, args) ==
    LET lv == read_reg(p, args.rs1)
        rv == read_reg(p, args.rs2)
    IN  Ok(write_reg(p, args.rd,
                     IF AddOverflowsU32(lv, rv) THEN W(\hFFFF, \hFFFF) ELSE wrapping_add(lv, rv)))

inst_add(p, args) ==
    Ok(write_reg(p, args.rd, wrapping_add(read_reg(p, args.rs1), read_reg(p, args.rs2))))

inst_sub(p, args) ==
    Ok(write_reg(p, args.rd, wrapping_sub(read_reg(p, args.rs1), read_reg(p, args.rs2))))

inst_sll(p, args) ==
    LET lv == read_reg(p, args.rs1)
        rv == read_reg(p, args.rs2)
    IN  IF ShiftPanics(rv) THEN Panic(p)
        ELSE Ok(write_reg(p, args.rd, Shl(lv, ShiftAmount(rv))))

inst_slt(p, args) ==
    Ok(write_reg(p, args.rd, BoolU32(LtS(read_reg(p, args.rs1), read_reg(p, args.rs2)))))

inst_sltu(p, args) ==
    Ok(write_reg(p, args.rd, BoolU32(LtU(read_reg(p, args.rs1), read_reg(p, args.rs2)))))

inst_xor(p, args) ==
    Ok(write_reg(p, args.rd, BitXor(read_reg(p, args.rs1), read_reg(p, args.rs2))))

inst_srl(p, args) ==
    LET lv == read_reg(p, args.rs1)
        rv == read_reg(p, args.rs2)
    IN  IF ShiftPanics(rv) THEN Panic(p)
        ELSE Ok(write_reg(p, args.rd, Shr(lv, ShiftAmount(rv))))

inst_sra(p, args) ==
    LET lv == read_reg(p, args.rs1)
        rv == read_reg(p, args.rs2)
    IN  IF ShiftPanics(rv) THEN Panic(p)
        ELSE Ok(write_reg(p, args.rd, Sar(lv, ShiftAmount(rv))))

inst_or(p, args) ==
    Ok(write_reg(p, args.rd, BitOr(read_reg(p, args.rs1), read_reg(p, args.rs2))))

inst_and(p, args) ==
    Ok(write_reg(p, args.rd, BitAnd(read_reg(p, args.rs1), read_reg(p, args.rs2))))

inst_jalr(p, args) ==
    LET lv == read_reg(p, args.rs1)
        rv == sign_extend(args.imm)
        new_pc == BitAnd(wrapping_add(lv, rv), W(\hFFFF, \hFFFE))
    IN  IF AddPanicsU32(lv, rv) THEN Panic(p)
        ELSE IF Misaligned4(new_pc) THEN Err(p, "InstructionAddressMisaligned")
        ELSE IF AddPanicsU32(p.pc, <<0, 4>>) THEN Panic(p)
        ELSE LET q == set_pc(write_reg(p, args.rd, wrapping_add(p.pc, <<0, 4>>)), new_pc)
             IN  IF q.r # "Ok" THEN q ELSE Ok([q.p EXCEPT !.has_jumped = TRUE])

inst_addi(p, args) ==
    LET lv == read_reg(p, args.rs1)
        rv == sign_extend(args.imm)
    IN  IF AddPanicsI32(lv, rv) THEN Panic(p)
        ELSE Ok(write_reg(p, args.rd, wrapping_add(lv, rv)))

inst_slli(p, args) ==
    Ok(write_reg(p, args.rd, Shl(read_reg(p, args.rs1), args.imm % 32)))

inst_slti(p, args) ==
    Ok(write_reg(p, args.rd, BoolU32(LtS(read_reg(p, args.rs1), sign_extend(args.imm)))))

\* inst_sltiu with the immediate zero-extended
inst_sltiu_zero_extends(p, args) ==
    Ok(write_reg(p, args.rd, BoolU32(LtU(read_reg(p, args.rs1), U32(args.imm)))))

inst_sltiu(p, args) ==
    Ok(write_reg(p, args.rd, BoolU32(LtU(read_reg(p, args.rs1), sign_extend(args.imm)))))

inst_xori(p, args) ==
    Ok(write_reg(p, args.rd, BitXor(read_reg(p, args.rs1), sign_extend(args.imm))))

inst_srli(p, args) ==
    Ok(write_reg(p, args.rd, Shr(read_reg(p, args.rs1), args.imm % 32)))

\* inst_srai with the logical shift of inst_srli
inst_srai_logical(p, args) ==
    Ok(write_reg(p, args.rd, Shr(read_reg(p, args.rs1), args.imm % 32)))

inst_srai(p, args) ==
    Ok(write_reg(p, args.rd, Sar(read_reg(p, args.rs1), args.imm % 32)))

inst_ori(p, args) ==
    Ok(write_reg(p, args.rd, BitOr(read_reg(p, args.rs1), sign_extend(args.imm))))

inst_andi(p, args) ==
    Ok(write_reg(p, args.rd, BitAnd(read_reg(p, args.rs1), sign_extend(args.imm))))

\* (x as i8) as u32 and (x as i16) as u32
SignExtend8(b) == IF b >= 128 THEN W(\hFFFF, \hFF00 + b) ELSE U32(b)
SignExtend16(h) == IF h >= 32768 THEN W(\hFFFF, h) ELSE U32(h)

\* the loads: addr = (lv + rv) as usize; an address outside the vector panics
\* inst_lb with the byte zero-extended as in inst_lbu
inst_lb_zero_extends(p, args) ==
    LET lv == read_reg(p, args.rs1)
        rv == sign_extend(args.imm)
        addr == wrapping_add(lv, rv)
    IN  IF AddPanicsU32(lv, rv) THEN Panic(p)
        ELSE IF ~InBounds(p.mem, addr, 1) THEN Panic(p)
        ELSE Ok(write_reg(p, args.rd, U32(read_lb(p.mem, addr))))

inst_lb(p, args) ==
    LET lv == read_reg(p, args.rs1)
        rv == sign_extend(args.imm)
        addr == wrapping_add(lv, rv)
    IN  IF AddPanicsU32(lv, rv) THEN Panic(p)
        ELSE IF ~InBounds(p.mem, addr, 1) THEN Panic(p)
        ELSE Ok(write_reg(p, args.rd, SignExtend8(read_lb(p.mem, addr))))

inst_lh(p, args) ==
    LET lv == read_reg(p, args.rs1)
        rv == sign_extend(args.imm)
        addr == wrapping_add(lv, rv)
    IN  IF AddPanicsU32(lv, rv) THEN Panic(p)
        ELSE IF ~InBounds(p.mem, addr, 2) THEN Panic(p)
        ELSE Ok(write_reg(p, args.rd, SignExtend16(read_lh(p.mem, addr))))

inst_lw(p, args) ==
    LET lv == read_reg(p, args.rs1)
        rv == sign_extend(args.imm)
        addr == wrapping_add(lv, rv)
    IN  IF AddPanicsU32(lv, rv) THEN Panic(p)
        ELSE IF ~InBounds(p.mem, addr, 4) THEN Panic(p)
        ELSE Ok(write_reg(p, args.rd, read_lw(p.mem, addr)))

inst_lbu(p, args) ==
    LET lv == read_reg(p, args.rs1)
        rv == sign_extend(args.imm)
        addr == wrapping_add(lv, rv)
    IN  IF AddPanicsU32(lv, rv) THEN Panic(p)
        ELSE IF ~InBounds(p.mem, addr, 1) THEN Panic(p)
        ELSE Ok(write_reg(p, args.rd, U32(read_lb(p.mem, addr))))

inst_lhu(p, args) ==
    LET lv == read_reg(p, args.rs1)
        rv == sign_extend(args.imm)
        addr == wrapping_add(lv, rv)
    IN  IF AddPanicsU32(lv, rv) THEN Panic(p)
        ELSE IF ~InBounds(p.mem, addr, 2) THEN Panic(p)
        ELSE Ok(write_reg(p, args.rd, U32(read_lh(p.mem, addr))))

\* the CSR instructions: read the CSR, write rd, then read rs1 and write the CSR
inst_csrrw(p, args) ==
    LET old_csr == read_csr(p, args.imm)
        q == write_reg(p, args.rd, old_csr.v)
        value == read_reg(q, args.rs1)
        wr == write_csr(q, args.imm, value)
    IN  IF old_csr.r # "Ok" THEN Err(p, old_csr.r)
        ELSE IF wr.r # "Ok" THEN Err(q, wr.r)
        ELSE Ok([q EXCEPT !.csr = wr.c])

inst_csrrs(p, args) ==
    LET old_csr == read_csr(p, args.imm)
        q == write_reg(p, args.rd, old_csr.v)
        value == read_reg(q, args.rs1)
        wr == write_csr(q, args.imm, BitOr(old_csr.v, value))
    IN  IF old_csr.r # "Ok" THEN Err(p, old_csr.r)
        ELSE IF wr.r # "Ok" THEN Err(q, wr.r)
        ELSE Ok([q EXCEPT !.csr = wr.c])

inst_csrrc(p, args) ==
    LET old_csr == read_csr(p, args.imm)
        q == write_reg(p, args.rd, old_csr.v)
        value == read_reg(q, args.rs1)
        wr == write_csr(q, args.imm, BitAnd(old_csr.v, BitNot(value)))
    IN  IF old_csr.r # "Ok" THEN Err(p, old_csr.r)
        ELSE IF wr.r # "Ok" THEN Err(q, wr.r)
        ELSE Ok([q EXCEPT !.csr = wr.c])

inst_csrrwi(p, args) ==
    LET old_csr == read_csr(p, args.imm)
        q == write_reg(p, args.rd, old_csr.v)
        wr == write_csr(q, args.imm, U32(args.rs1))
    IN  IF old_csr.r # "Ok" THEN Err(p, old_csr.r)
        ELSE IF wr.r # "Ok" THEN Err(q, wr.r)
        ELSE Ok([q EXCEPT !.csr = wr.c])

inst_csrrsi(p, args) ==
    LET old_csr == read_csr(p, args.imm)
        q == write_reg(p, args.rd, old_csr.v)
        wr == write_csr(q, args.imm, BitOr(old_csr.v, U32(args.rs1)))
    IN  IF old_csr.r # "Ok" THEN Err(p, old_csr.r)
        ELSE IF wr.r # "Ok" THEN Err(q, wr.r)
        ELSE Ok([q EXCEPT !.csr = wr.c])

inst_csrrci(p, args) ==
    LET old_csr == read_csr(p, args.imm)
        q == write_reg(p, args.rd, old_csr.v)
        wr == write_csr(q, args.imm, BitAnd(old_csr.v, BitNot(U32(args.rs1))))
    IN  IF old_csr.r # "Ok" THEN Err(p, old_csr.r)
        ELSE IF wr.r # "Ok" THEN Err(q, wr.r)
        ELSE Ok([q EXCEPT !.csr = wr.c])

\* the stores: addr = (base + offset) as usize; an address outside the vector panics
inst_sb(p, args) ==
    LET base == read_reg(p, args.rs1)
        offset == sign_extend(args.imm)
        addr == wrapping_add(base, offset)
        data == read_reg(p, args.rs2)
    IN  IF AddPanicsU32(base, offset) THEN Panic(p)
        ELSE IF ~InBounds(p.mem, addr, 1) THEN Panic(p)
        ELSE Ok([p EXCEPT !.mem = write_lb(p.mem, addr, data[2] % 256)])

\* inst_sh storing the whole of rs2 as inst_sw does
inst_sh_writes_word(p, args) ==
    LET base == read_reg(p, args.rs1)
        offset == sign_extend(args.imm)
        addr == wrapping_add(base, offset)
        data == read_reg(p, args.rs2)
    IN  IF AddPanicsU32(base, offset) THEN Panic(p)
        ELSE IF ~InBounds(p.mem, addr, 2) THEN Panic(p)
        ELSE Ok([p EXCEPT !.mem = write_lw(p.mem, addr, data)])

inst_sh(p, args) ==
    LET base == read_reg(p, args.rs1)
        offset == sign_extend(args.imm)
        addr == wrapping_add(base, offset)
        data == read_reg(p, args.rs2)
    IN  IF AddPanicsU32(base, offset) THEN Panic(p)
        ELSE IF ~InBounds(p.mem, addr, 2) THEN Panic(p)
        ELSE Ok([p EXCEPT !.mem = write_lh(p.mem, addr, data[2])])

inst_sw(p, args) ==
    LET base == read_reg(p, args.rs1)
        offset == sign_extend(args.imm)
        addr == wrapping_add(base, offset)
        data == read_reg(p, args.rs2)
    IN  IF AddPanicsU32(base, offset) THEN Panic(p)
        ELSE IF ~InBounds(p.mem, addr, 4) THEN Panic(p)
        ELSE Ok([p EXCEPT !.mem = write_lw(p.mem, addr, data)])

\* branch_inner with the alignment test made before the condition is looked at
branch_inner_aligns_first(p, condition, offset) ==
    IF offset % 4 # 0
    THEN Err(p, "InstructionAddressMisaligned")
    ELSE IF ~condition THEN Ok(p)
    ELSE IF AddPanicsU32(p.pc, sign_extend(offset)) THEN Panic(p)
    ELSE Ok([p EXCEPT !.pc = wrapping_add(p.pc, sign_extend(offset)),
                      !.has_jumped = TRUE])

\* branch_inner adding the offset to pc before it tests the alignment
branch_inner_moves_first(p, condition, offset) ==
    IF condition
    THEN IF AddPanicsU32(p.pc, sign_extend(offset)) THEN Panic(p)
         ELSE IF offset % 4 # 0
         THEN Err([p EXCEPT !.pc = wrapping_add(p.pc, sign_extend(offset))],
                  "InstructionAddressMisaligned")
         ELSE Ok([p EXCEPT !.pc = wrapping_add(p.pc, sign_extend(offset)),
                           !.has_jumped = TRUE])
    ELSE Ok(p)

\* offset: u16
branch_inner(p, condition, offset) ==
    IF condition
    THEN IF offset % 4 # 0
         THEN Err(p, "InstructionAddressMisaligned")
         ELSE IF AddPanicsU32(p.pc, sign_extend(offset)) THEN Panic(p)
         ELSE Ok([p EXCEPT !.pc = wrapping_add(p.pc, sign_extend(offset)),
                           !.has_jumped = TRUE])
    ELSE Ok(p)

inst_beq(p, args) ==
    branch_inner(p, read_reg(p, args.rs1) = read_reg(p, args.rs2), args.imm)

inst_bne(p, args) ==
    branch_inner(p, read_reg(p, args.rs1) # read_reg(p, args.rs2), args.imm)

inst_blt(p, args) ==
    branch_inner(p, LtS(read_reg(p, args.rs1), read_reg(p, args.rs2)), args.imm)

inst_bge(p, args) ==
    branch_inner(p, ~LtS(read_reg(p, args.rs1), read_reg(p, args.rs2)), args.imm)

inst_bltu(p, args) ==
    branch_inner(p, LtU(read_reg(p, args.rs1), read_reg(p, args.rs2)), args.imm)

inst_bgeu(p, args) ==
    branch_inner(p, ~LtU(read_reg(p, args.rs1), read_reg(p, args.rs2)), args.imm)

inst_auipc(p, args) ==
    LET offset == Shl(args.imm, 12)
        new_pc == wrapping_add(p.pc, offset)
        q == set_pc(p, new_pc)
    IN  IF AddPanicsU32(p.pc, offset) THEN Panic(p)
        ELSE IF q.r # "Ok" THEN q
        ELSE Ok(write_reg(q.p, args.rd, new_pc))

inst_lui(p, args) == Ok(write_reg(p, args.rd, Shl(args.imm, 12)))

inst_jal(p, args) ==
    LET q == write_reg(p, args.rd, wrapping_add(p.pc, <<0, 4>>))
        offset == sign_extend_20bit(args.imm)
        new_pc == wrapping_add(q.pc, offset)
        s == set_pc(q, new_pc)
    IN  IF AddPanicsU32(p.pc, <<0, 4>>) THEN Panic(p)
        ELSE IF Misaligned4(new_pc) THEN Err(q, "InstructionAddressMisaligned")
        ELSE IF s.r # "Ok" THEN s
        ELSE Ok([s.p EXCEPT !.has_jumped = TRUE])

\* the match of Processor::tick: the executor of the decoded instruction
execute_inst(p, d) ==
    CASE d.op = "Add"    -> inst_add(p, d.args)
      [] d.op = "Sub"    -> inst_sub(p, d.args)
      [] d.op = "Sll"    -> inst_sll(p, d.args)
      [] d.op = "Slt"    -> inst_slt(p, d.args)
      [] d.op = "Sltu"   -> inst_sltu(p, d.args)
      [] d.op = "Xor"    -> inst_xor(p, d.args)
      [] d.op = "Srl"    -> inst_srl(p, d.args)
      [] d.op = "Sra"    -> inst_sra(p, d.args)
      [] d.op = "Or"     -> inst_or(p, d.args)
      [] d.op = "And"    -> inst_and(p, d.args)
      [] d.op = "Jalr"   -> inst_jalr(p, d.args)
      [] d.op = "Addi"   -> inst_addi(p, d.args)
      [] d.op = "Slli"   -> inst_slli(p, d.args)
      [] d.op = "Slti"   -> inst_slti(p, d.args)
      [] d.op = "Sltiu"  -> inst_sltiu(p, d.args)
      [] d.op = "Xori"   -> inst_xori(p, d.args)
      [] d.op = "Srli"   -> inst_srli(p, d.args)
      [] d.op = "Srai"   -> inst_srai(p, d.args)
      [] d.op = "Ori"    -> inst_ori(p, d.args)
      [] d.op = "Andi"   -> inst_andi(p, d.args)
      [] d.op = "Lb"     -> inst_lb(p, d.args)
      [] d.op = "Lh"     -> inst_lh(p, d.args)
      [] d.op = "Lw"     -> inst_lw(p, d.args)
      [] d.op = "Lbu"    -> inst_lbu(p, d.args)
      [] d.op = "Lhu"    -> inst_lhu(p, d.args)
      [] d.op = "Csrrw"  -> inst_csrrw(p, d.args)
      [] d.op = "Csrrs"  -> inst_csrrs(p, d.args)
      [] d.op = "Csrrc"  -> inst_csrrc(p, d.args)
      [] d.op = "Csrrwi" -> inst_csrrwi(p, d.args)
      [] d.op = "Csrrsi" -> inst_csrrsi(p, d.args)
      [] d.op = "Csrrci" -> inst_csrrci(p, d.args)
      [] d.op = "Sb"     -> inst_sb(p, d.args)
      [] d.op = "Sh"     -> inst_sh(p, d.args)
      [] d.op = "Sw"     -> inst_sw(p, d.args)
      [] d.op = "Beq"    -> inst_beq(p, d.args)
      [] d.op = "Bne"    -> inst_bne(p, d.args)
      [] d.op = "Blt"    -> inst_blt(p, d.args)
      [] d.op = "Bge"    -> inst_bge(p, d.args)
      [] d.op = "Bltu"   -> inst_bltu(p, d.args)
      [] d.op = "Bgeu"   -> inst_bgeu(p, d.args)
      [] d.op = "Auipc"  -> inst_auipc(p, d.args)
      [] d.op = "Lui"    -> inst_lui(p, d.args)
      [] d.op = "Jal"    -> inst_jal(p, d.args)

\* the end of Processor::tick: if no jump occurred, increment pc; clear the flag
\* the end of tick without the reset of the flag
advance_pc_keeps_flag(p) ==
    IF ~p.has_jumped /\ AddPanicsU32(p.pc, <<0, 4>>) THEN Panic(p)
    ELSE Ok([p EXCEPT !.pc = IF p.has_jumped THEN p.pc ELSE wrapping_add(p.pc, <<0, 4>>)])

advance_pc(p) ==
    IF ~p.has_jumped /\ AddPanicsU32(p.pc, <<0, 4>>) THEN Panic(p)
    ELSE Ok([p EXCEPT !.pc = IF p.has_jumped THEN p.pc ELSE wrapping_add(p.pc, <<0, 4>>),
                      !.has_jumped = FALSE])

\* the start of Processor::tick: self.pc + 4 > self.mem.len() as u32
fetch_faults(p) == LtU(U32(MemLen(p.mem)), wrapping_add(p.pc, <<0, 4>>))

\* Processor::tick
tick(p) ==
    IF AddPanicsU32(p.pc, <<0, 4>>) THEN Panic(p)
    ELSE IF fetch_faults(p) THEN Err(p, "InstructionAccessFault")
    ELSE IF ~InBounds(p.mem, p.pc, 4) THEN Panic(p)
    ELSE LET d == decode(read_bw(p.mem, p.pc))
         IN  IF d.res # "Ok" THEN Err(p, d.res)
             ELSE LET x == execute_inst(p, d)
                  IN  IF x.r # "Ok" THEN x ELSE advance_pc(x.p)

\* Processor::load: the words of program written big-endian from address on
RECURSIVE write_program(_, _, _, _)
write_program(p, address, prog, index) ==
    IF index > Len(prog) THEN Ok(p)
    ELSE LET addr == U32(address[2] + (index - 1) * 4)
         IN  IF ~InBounds(p.mem, addr, 4) THEN Panic(p)
             ELSE write_program([p EXCEPT !.mem = write_bw(p.mem, addr, prog[index])],
                                address, prog, index + 1)

load(p, address, prog) ==
    IF Misaligned4(address) THEN Panic(p) ELSE write_program(p, address, prog, 1)

---------------------------------------------------------------------------
(* Instruction words the host loads, built field by field as the RISC-V
   base ISA lays them out *)

EncR(funct7, rs2, rs1, funct3, rd, opcode) ==
    <<funct7 * 512 + rs2 * 16 + rs1 \div 2,
      (rs1 % 2) * 32768 + funct3 * 4096 + rd * 128 + opcode>>

\* imm: the 12 bits of the immediate
EncI(imm, rs1, funct3, rd, opcode) == EncR(imm \div 32, imm % 32, rs1, funct3, rd, opcode)
EncS(imm, rs2, rs1, funct3) == EncR(imm \div 32, rs2, rs1, funct3, imm % 32, 35)

\* imm: the 13 bits of the branch offset
EncB(imm, rs2, rs1, funct3) ==
    EncR((imm \div 4096) * 64 + ((imm \div 32) % 64), rs2, rs1, funct3,
         ((imm \div 2) % 16) * 2 + ((imm \div 2048) % 2), 99)

\* imm: the 20 bits of inst[31:12]
EncU(imm, rd, opcode) == <<imm \div 16, (imm % 16) * 4096 + rd * 128 + opcode>>

\* imm: the 21 bits of the jump offset
EncJ(imm, rd) ==
    EncU((imm \div 1048576) * 524288 + ((imm \div 2) % 1024) * 512
         + ((imm \div 2048) % 2) * 256 + ((imm \div 4096) % 256), rd, 111)

\* a 12-bit, 13-bit and 21-bit two's-complement immediate
Imm12(n) == IF n < 0 THEN 4096 + n ELSE n
Imm13(n) == IF n < 0 THEN 8192 + n ELSE n
Imm21(n) == IF n < 0 THEN 2097152 + n ELSE n

ADDI(rd, rs1, n) == EncI(Imm12(n), rs1, 0, rd, 19)
JALR(rd, rs1, n) == EncI(Imm12(n), rs1, 0, rd, 103)
BEQ(rs1, rs2, n) == EncB(Imm13(n), rs2, rs1, 0)
BNE(rs1, rs2, n) == EncB(Imm13(n), rs2, rs1, 1)
BLT(rs1, rs2, n) == EncB(Imm13(n), rs2, rs1, 4)
BGE(rs1, rs2, n) == EncB(Imm13(n), rs2, rs1, 5)
BLTU(rs1, rs2, n) == EncB(Imm13(n), rs2, rs1, 6)
BGEU(rs1, rs2, n) == EncB(Imm13(n), rs2, rs1, 7)
JAL(rd, n) == EncJ(Imm21(n), rd)
LUI(rd, imm) == EncU(imm, rd, 55)
AUIPC(rd, imm) == EncU(imm, rd, 23)
ADD(rd, rs1, rs2) == EncR(0, rs2, rs1, 0, rd, 51)
LW(rd, rs1, n) == EncI(Imm12(n), rs1, 2, rd, 3)
SW(rs2, rs1, n) == EncS(Imm12(n), rs2, rs1, 2)
LOAD(funct3, rd, rs1, n) == EncI(Imm12(n), rs1, funct3, rd, 3)
STORE(funct3, rs2, rs1, n) == EncS(Imm12(n), rs2, rs1, funct3)
CSRRW(rd, addr, rs1) == EncI(addr, rs1, 1, rd, 115)

\* the instruction families by funct3 (and funct7): opcode 1110011 (CSRRS 2,
\* CSRRC 3, CSRRWI 5, CSRRSI 6, CSRRCI 7; rs1 is the immediate of the last
\* three), opcode 0110011 and opcode 0010011
CSR(funct3, rd, addr, rs1) == EncI(addr, rs1, funct3, rd, 115)
OP(funct7, funct3, rd, rs1, rs2) == EncR(funct7, rs2, rs1, funct3, rd, 51)
OPIMM(funct3, rd, rs1, n) == EncI(Imm12(n), rs1, funct3, rd, 19)

---------------------------------------------------------------------------
(* The state machine: a host that builds a processor over a zero-filled
   VectorMemory, configures it with set_pc and load, and then runs it tick
   by tick (cli/src/main.rs, Processor::execute) *)

\* bounds of the model
MemSize == 16
MaxSetup == 2
MaxTicks == 4

\* the memory sizes the host chooses from
MemSizes == {0, MemSize - 2, MemSize}

\* the values the host passes to set_pc and, as the address, to load
PcInputs == {U32(4 * k) : k \in 0..(MemSize \div 4)} \cup {U32(2), W(\hFFFF, \hFFFC)}
LoadAddresses == {Zero, U32(4), U32(2)}

\* the images the host loads: up to four instructions, each of which the
\* host can make the entry point with set_pc
Programs ==
    { \* writes to x0 and reads of x0
      <<ADDI(1, 0, 5), ADDI(0, 1, 1), ADD(2, 0, 1)>>,
      <<LUI(0, 1), JAL(0, 8), CSRRW(0, 768, 0)>>,
      \* ALU, store, load, CSR, LUI and AUIPC
      <<ADDI(1, 0, 5), SW(1, 0, 8), LW(2, 0, 8)>>,
      <<CSRRW(1, 768, 0), LUI(3, 1), AUIPC(1, 0)>>,
      <<AUIPC(1, 1), AUIPC(2, 256), ADD(3, 1, 2)>>,
      \* JALR: odd and misaligned sums, rd = rs1, sums that leave the u32 range
      <<ADDI(1, 0, 5), JALR(1, 1, 0)>>,
      <<ADDI(1, 0, 7), JALR(2, 1, 0)>>,
      <<ADDI(1, 0, -2), JALR(2, 1, 4)>>,
      <<ADDI(1, 0, -4), JALR(2, 1, 8)>>,
      <<JALR(2, 0, 8), JALR(2, 0, -4), JALR(2, 0, 2)>>,
      \* taken branches over the range of the 13-bit offset
      <<BEQ(0, 0, 8), BEQ(0, 0, -4), BEQ(0, 0, 2044)>>,
      <<BEQ(0, 0, 2048), BEQ(0, 0, 4092), BEQ(0, 0, -2048)>>,
      <<BEQ(0, 0, -4096), BEQ(0, 0, -2052), BEQ(0, 0, 4)>>,
      \* every branch, taken and not taken, aligned and misaligned
      <<ADDI(1, 0, -1), BEQ(1, 0, 8), BEQ(1, 0, 130)>>,
      <<BEQ(0, 0, 130), BEQ(0, 0, 2), BEQ(0, 0, -2)>>,
      <<ADDI(1, 0, -1), BNE(1, 0, 8), BNE(1, 0, 130)>>,
      <<BNE(0, 0, 8), BNE(0, 0, 130), BNE(0, 0, -2)>>,
      <<ADDI(1, 0, -1), BLT(1, 0, 8), BLT(1, 0, 130)>>,
      <<ADDI(1, 0, -1), BLT(0, 1, 8), BLT(0, 1, 130)>>,
      <<ADDI(1, 0, -1), BGE(1, 0, 8), BGE(1, 0, 130)>>,
      <<ADDI(1, 0, -1), BGE(0, 1, 8), BGE(0, 1, 130)>>,
      <<ADDI(1, 0, -1), BLTU(1, 0, 8), BLTU(1, 0, 130)>>,
      <<ADDI(1, 0, -1), BLTU(0, 1, 8), BLTU(0, 1, 130)>>,
      <<ADDI(1, 0, -1), BGEU(1, 0, 8), BGEU(1, 0, 130)>>,
      <<ADDI(1, 0, -1), BGEU(0, 1, 8), BGEU(0, 1, 130)>>,
      \* JAL over the range of the 21-bit offset, and to a misaligned target
      <<JAL(1, 8), JAL(1, -4), JAL(1, 524288)>>,
      <<JAL(1, -1048576), JAL(0, 1048572), JAL(1, 2)>>,
      <<JAL(1, 262144), JAL(1, -524288), JAL(1, 786432)>>,
      \* CSRRW twice on mstatus (0x300): distinct rd and rs1, then rd = rs1 in
      \* the second and in the first instruction
      <<ADDI(1, 0, 5), CSRRW(2, 768, 1), CSRRW(1, 768, 2)>>,
      <<ADDI(1, 0, 5), CSRRW(0, 768, 1), CSRRW(2, 768, 2)>>,
      <<ADDI(1, 0, 5), CSRRW(1, 768, 1), CSRRW(2, 768, 0)>>,
      \* CSRRWI, CSRRSI, CSRRCI, and two CSRs
      <<CSR(5, 1, 768, 21), CSR(6, 2, 768, 10), CSR(7, 3, 768, 17)>>,
      <<CSR(5, 0, 768, 3), CSR(5, 0, 769, 5), CSR(6, 1, 768, 8)>>,
      \* CSRRS and CSRRC on a CSR that holds a value, with rd # rs1 and rd = rs1
      <<CSR(5, 0, 768, 3), ADDI(1, 0, 5), CSR(2, 2, 768, 1)>>,
      <<CSR(5, 0, 768, 7), ADDI(1, 0, 5), CSR(3, 2, 768, 1)>>,
      <<CSR(5, 0, 768, 3), ADDI(1, 0, 4), CSR(2, 1, 768, 1)>>,
      <<CSR(5, 0, 768, 7), ADDI(1, 0, 5), CSR(3, 1, 768, 1)>>,
      \* SUB 3 - 7 and 0 - 0xFFFFFFFF; ADD 0xFFFFFFFF + 0xFFFFFFFF and, with
      \* SRLI to build the operands, 0x7FFFFFFF + 0x00007FFF
      <<ADDI(1, 0, 3), ADDI(2, 0, 7), OP(32, 0, 3, 1, 2)>>,
      <<ADDI(1, 0, -1), ADD(2, 1, 1), OP(32, 0, 3, 0, 1)>>,
      <<ADDI(1, 0, -1), OPIMM(5, 1, 1, 1), OPIMM(5, 2, 1, 16), ADD(3, 1, 2)>>,
      \* LUI and AUIPC with the top and the bottom bit of inst[31:12] set
      <<LUI(1, 524289), AUIPC(2, 524289), LUI(3, 1048575)>>,
      \* ADDI: 0x7FFFFFFF + 1, 0xFFFFFFFF + (-1), 0 + (-2048) and 5 + 2047
      <<ADDI(1, 0, -1), OPIMM(5, 1, 1, 1), ADDI(2, 1, 1)>>,
      <<ADDI(1, 0, -1), ADDI(2, 1, -1), ADDI(3, 0, -2048), ADDI(4, 2, 2047)>>,
      \* SLL, SRL and SRA of 0xFFFFFFFC by 4, by 33, by 36 and by 0xFFFFFFFC
      <<ADDI(1, 0, -4), ADDI(2, 0, 4), OP(0, 1, 3, 1, 2), OP(0, 5, 4, 1, 2)>>,
      <<ADDI(1, 0, -4), ADDI(2, 0, 4), OP(32, 5, 3, 1, 2), OP(32, 5, 4, 3, 2)>>,
      <<ADDI(1, 0, -4), ADDI(2, 0, 33), OP(0, 1, 3, 1, 2), OP(0, 5, 4, 1, 2)>>,
      <<ADDI(1, 0, -4), ADDI(2, 0, 36), OP(32, 5, 3, 1, 2), OP(0, 1, 4, 1, 2)>>,
      <<ADDI(1, 0, -4), OP(0, 1, 2, 1, 1), OP(0, 5, 3, 1, 1), OP(32, 5, 4, 1, 1)>>,
      \* 0x80000000 shifted right by 4 by SRLI, SRAI, SRL and SRA; SLLI, SRLI
      \* and SRAI with immediate bits above the low five set
      <<ADDI(1, 0, 1), OPIMM(1, 1, 1, 31), OPIMM(5, 2, 1, 4), OPIMM(5, 3, 1, 1028)>>,
      <<ADDI(1, 0, 1), OPIMM(1, 1, 1, 31), ADDI(2, 0, 4), OP(0, 5, 3, 1, 2)>>,
      <<ADDI(1, 0, 1), OPIMM(1, 1, 1, 31), ADDI(2, 0, 4), OP(32, 5, 3, 1, 2)>>,
      <<ADDI(1, 0, -4), OPIMM(1, 2, 1, 35), OPIMM(5, 3, 1, 0), OPIMM(5, 4, 1, 1055)>>,
      \* SLT and SLTU on 0xFFFFFFFF and 1 in both orders and on equal operands;
      \* SLTI and SLTIU against -1, 5, 2047, -2047 and -2048
      <<ADDI(1, 0, -1), ADDI(2, 0, 1), OP(0, 2, 3, 1, 2), OP(0, 3, 4, 1, 2)>>,
      <<ADDI(1, 0, -1), ADDI(2, 0, 1), OP(0, 2, 3, 2, 1), OP(0, 3, 4, 2, 1)>>,
      <<ADDI(1, 0, -1), OP(0, 2, 3, 1, 1), OP(0, 3, 4, 1, 1), OP(0, 2, 3, 1, 0)>>,
      <<ADDI(1, 0, 5), OPIMM(2, 2, 1, -1), OPIMM(3, 3, 1, -1), OPIMM(3, 4, 1, 5)>>,
      <<ADDI(1, 0, -2048), OPIMM(2, 2, 1, 2047), OPIMM(3, 3, 1, 2047), OPIMM(3, 4, 1, -1)>>,
      <<ADDI(1, 0, -2048), OPIMM(2, 2, 1, -2048), OPIMM(2, 3, 1, -2047), OPIMM(3, 4, 1, -2048)>>,
      \* the five loads of the bytes 0x80, 0x80, 0x08, 0x08 at address 4, which
      \* a jump steps over; loads with a base register and a negative offset
      <<JAL(0, 8), W(\h8080, \h0808), LOAD(0, 1, 0, 4), LOAD(1, 2, 0, 4)>>,
      <<JAL(0, 8), W(\h8080, \h0808), LOAD(4, 1, 0, 4), LOAD(5, 2, 0, 4)>>,
      <<JAL(0, 8), W(\h8080, \h0808), LOAD(2, 1, 0, 4), LOAD(0, 2, 0, 7)>>,
      <<ADDI(1, 0, 12), LOAD(2, 2, 1, -4), W(\h0180, \hFF7F), LOAD(1, 3, 1, -3)>>,
      <<ADDI(1, 0, 4), LOAD(0, 2, 1, 7), LOAD(5, 3, 1, 6), W(\h0180, \hFF7F)>>,
      \* SB, SH and SW of 0xFFFFFAA5 and 0xFFD52800, over zeroed bytes and over
      \* the image, with a CSR that holds a value, and with a negative offset
      <<ADDI(1, 0, -1371), OPIMM(1, 1, 1, 11), STORE(2, 1, 0, 12)>>,
      <<ADDI(1, 0, -1371), OPIMM(1, 1, 1, 11), STORE(2, 1, 0, 1), STORE(1, 1, 0, 5)>>,
      <<CSR(5, 0, 768, 7), ADDI(1, 0, -1371), STORE(1, 1, 0, 13), STORE(0, 1, 0, 14)>>,
      <<ADDI(1, 0, -1371), STORE(0, 1, 0, 15), STORE(1, 1, 0, 14), STORE(2, 1, 0, 3)>>,
      <<ADDI(2, 0, 16), ADDI(1, 0, -1371), STORE(2, 1, 2, -4), STORE(0, 1, 2, -1)>>,
      \* loads and stores past the end of the memory and across it
      <<LOAD(2, 1, 0, 16), LOAD(0, 1, 0, 2047), LOAD(1, 1, 0, 15)>>,
      <<STORE(2, 0, 0, 14), STORE(0, 0, 0, 16), STORE(1, 0, 0, 2047)>>,
      \* a jump that is taken, then a taken branch to a misaligned target
      <<JAL(1, 8), BEQ(0, 0, 8), BEQ(0, 0, 2), BNE(0, 0, 8)>>,
      \* LW and SW at address 4 through rs1 = 8 and immediate 0xFFC
      <<ADDI(1, 0, 8), LOAD(2, 2, 1, -4), STORE(2, 1, 1, -4)>>,
      \* traps with a CSR that holds a value: a taken misaligned branch, a
      \* misaligned JAL, and a word that does not decode
      <<CSR(5, 0, 768, 7), BEQ(0, 0, 2), JAL(1, 2), Zero>>,
      \* the six CSR instructions on addresses of every privilege level, on
      \* the lowest and the highest address, and on read-only addresses
      \* (0xC00, 0xF00, 0xFFF) with values to write
      <<ADDI(1, 0, 5), CSR(1, 2, 0, 1), CSR(2, 3, 256, 1), CSR(3, 4, 512, 1)>>,
      <<CSR(5, 1, 1023, 9), CSR(6, 2, 1023, 6), CSR(7, 3, 2815, 1), CSR(1, 4, 1023, 0)>>,
      <<ADDI(1, 0, 5), CSR(1, 2, 3072, 1), CSR(2, 3, 4095, 1), CSR(3, 4, 3072, 1)>>,
      <<CSR(5, 1, 3840, 9), CSR(6, 2, 4095, 31), CSR(7, 3, 3327, 1), CSR(6, 4, 3840, 0)>>,
      \* CSRRW x5, 0x300, x5 with the CSR holding 7 and x5 holding 9
      <<CSR(5, 0, 768, 7), ADDI(5, 0, 9), CSRRW(5, 768, 5)>>,
      \* a jump that targets itself, alone and after an instruction
      <<JAL(0, 0)>>,
      <<ADDI(1, 0, 1), JAL(0, 0)>>,
      \* destination registers in the upper half of the register file
      <<ADDI(17, 0, 5), LOAD(2, 18, 0, 0), ADD(19, 17, 17)>> }

NoInst == [res |-> "none"]

\* the processor held in the variables
Proc ==
    [pc |-> pc, regs |-> regs, csr |-> csr, mem |-> mem, mode |-> mode,
     has_jumped |-> has_jumped]

\* the outcome x of a call becomes the state; a panic aborts the process and
\* leaves nothing to observe, so the variables keep their values
Becomes(x) ==
    /\ res' = x.r
    /\ old' = Proc
    /\ IF x.r = "panic"
       THEN UNCHANGED <<pc, regs, csr, mem, mode, has_jumped>>
       ELSE /\ pc' = x.p.pc
            /\ regs' = x.p.regs
            /\ csr' = x.p.csr
            /\ mem' = x.p.mem
            /\ mode' = x.p.mode
            /\ has_jumped' = x.p.has_jumped

Init ==
    /\ overflow_checks \in BOOLEAN
    /\ program \in Programs
    /\ call_args = << >>
    /\ \E size \in MemSizes :
          LET p == Processor_new(VectorMemory_new(size))
          IN  /\ pc = p.pc
              /\ regs = p.regs
              /\ csr = p.csr
              /\ mem = p.mem
              /\ mode = p.mode
              /\ has_jumped = p.has_jumped
              /\ old = p
    /\ res = "Ok"
    /\ call = "new"
    /\ decoded = NoInst
    /\ setup = 0
    /\ ticks = 0

\* processor.set_pc(new_pc)
SetPc ==
    /\ res # "panic"
    /\ ticks = 0
    /\ setup < MaxSetup
    /\ \E new_pc \in PcInputs :
          /\ call_args' = <<new_pc>>
          /\ Becomes(set_pc(Proc, new_pc))
    /\ call' = "set_pc"
    /\ decoded' = NoInst
    /\ setup' = setup + 1
    /\ UNCHANGED <<overflow_checks, program, ticks>>

\* processor.load(address, program)
LoadProgram ==
    /\ res # "panic"
    /\ ticks = 0
    /\ setup < MaxSetup
    /\ \E address \in LoadAddresses :
          /\ call_args' = <<address>>
          /\ Becomes(load(Proc, address, program))
    /\ call' = "load"
    /\ decoded' = NoInst
    /\ setup' = setup + 1
    /\ UNCHANGED <<overflow_checks, program, ticks>>

\* the word the last tick fetched and handed to decode
FetchReached(p) ==
    /\ ~AddPanicsU32(p.pc, <<0, 4>>)
    /\ ~fetch_faults(p)
    /\ InBounds(p.mem, p.pc, 4)

\* processor.tick()
Tick ==
    /\ res # "panic"
    /\ ticks < MaxTicks
    /\ Becomes(tick(Proc))
    /\ call_args' = << >>
    /\ call' = "tick"
    /\ decoded' = IF FetchReached(Proc) THEN decode(read_bw(mem, pc)) ELSE NoInst
    /\ ticks' = ticks + 1
    /\ UNCHANGED <<overflow_checks, program, setup>>

Next == SetPc \/ LoadProgram \/ Tick

Spec == Init /\ [][Next]_vars

---------------------------------------------------------------------------
(* The decoder on its own: the host hands one word to decode *)

\* the words handed to decode: every opcode and funct3 with samples of the
\* other fields
Funct7Samples == {0, 1, 32, 127}
Rs2Samples == {0, 4, 31}

\* the words of every opcode and funct3 with sampled funct7 and rs2, and
\* every word of opcode 1100011 (branches) and 1101111 (JAL) with inst[15:7]
\* free and inst[31:16] with each bit alone, none, all, and alternating bits
DecodeWords ==
    { EncR(funct7, rs2, 1, funct3, 2, opcode) :
        funct7 \in Funct7Samples, rs2 \in Rs2Samples, funct3 \in 0..7, opcode \in 0..127 }
    \cup { W(hi, mid * 128 + opcode) :
             hi \in {Pow2(k) : k \in 0..15} \cup {0, \hFFFF, \hAAAA, \h5555},
             mid \in 0..511, opcode \in {99, 111} }

InitDecode ==
    /\ overflow_checks \in BOOLEAN
    /\ program \in { <<w>> : w \in DecodeWords }
    /\ call_args = << >>
    /\ LET p == Processor_new(VectorMemory_new(0))
       IN  /\ pc = p.pc
           /\ regs = p.regs
           /\ csr = p.csr
           /\ mem = p.mem
           /\ mode = p.mode
           /\ has_jumped = p.has_jumped
           /\ old = p
    /\ res = "Ok"
    /\ call = "new"
    /\ decoded = NoInst
    /\ setup = 0
    /\ ticks = 0

\* decode(program[1])
DecodeWord ==
    /\ call = "new"
    /\ decoded' = decode(program[1])
    /\ res' = decoded'.res
    /\ call' = "decode"
    /\ call_args' = << >>
    /\ UNCHANGED <<pc, regs, csr, mem, mode, has_jumped, overflow_checks, program,
                   old, setup, ticks>>

NextDecode == DecodeWord

SpecDecode == InitDecode /\ [][NextDecode]_vars

---------------------------------------------------------------------------
(* The CSR file on its own: the host calls Csr::read and Csr::write, at any
   mode, on the Csr built by Csr::new.  call_args holds the arguments of the
   last call, <<addr, mode>> or <<addr, mode, value>>, and decoded what
   Csr::read returned. *)

\* bound on the number of calls the host makes
MaxCalls == 3

Modes == {"User", "Supervisor", "Machine"}

\* addresses of every privilege level, read-write and read-only, and one
\* past the end of the file
CsrAddrs == {0, 256, 512, 768, 769, 3072, 3840, 4095, 4096}

CsrValues == {Zero, <<0, 1>>, W(\hFFFF, \hFFFF)}

InitCsr ==
    /\ overflow_checks \in BOOLEAN
    /\ program = << >>
    /\ call_args = << >>
    /\ LET p == Processor_new(VectorMemory_new(0))
       IN  /\ pc = p.pc
           /\ regs = p.regs
           /\ csr = Csr_new
           /\ mem = p.mem
           /\ mode = p.mode
           /\ has_jumped = p.has_jumped
           /\ old = p
    /\ res = "Ok"
    /\ call = "new"
    /\ decoded = NoInst
    /\ setup = 0
    /\ ticks = 0

\* csr.read(addr, m)
CsrRead ==
    /\ ticks < MaxCalls
    /\ \E addr \in CsrAddrs, m \in Modes :
          /\ call_args' = <<addr, m>>
          /\ decoded' = Csr_read(csr, addr, m)
    /\ res' = decoded'.r
    /\ call' = "read"
    /\ old' = Proc
    /\ ticks' = ticks + 1
    /\ UNCHANGED <<pc, regs, csr, mem, mode, has_jumped, overflow_checks, program, setup>>

\* csr.write(addr, value, m)
CsrWrite ==
    /\ ticks < MaxCalls
    /\ \E addr \in CsrAddrs, m \in Modes, value \in CsrValues :
          LET w == Csr_write(csr, addr, value, m)
          IN  /\ call_args' = <<addr, m, value>>
              /\ csr' = w.c
              /\ res' = w.r
    /\ call' = "write"
    /\ decoded' = NoInst
    /\ old' = Proc
    /\ ticks' = ticks + 1
    /\ UNCHANGED <<pc, regs, mem, mode, has_jumped, overflow_checks, program, setup>>

NextCsr == CsrRead \/ CsrWrite

SpecCsr == InitCsr /\ [][NextCsr]_vars

---------------------------------------------------------------------------
(* The memory on its own: the host calls the byte, halfword and word
   accessors of the Memory trait on a zero-filled VectorMemory.  call_args
   holds the arguments of the last call, <<width, addr>> or
   <<width, addr, value>>, and decoded what the read returned. *)

\* length of the vector
MemBytes == 5

\* the values written, by width in bytes: a u8, a u16, a u32
MemValues(n) ==
    CASE n = 1 -> {\hEF}
      [] n = 2 -> {\hABCD}
      [] n = 4 -> {W(\h1234, \h5678), W(\h80FF, \h0001)}

\* Memory::read_byte, read_halfword, read_word of VectorMemory
Memory_read(m, n, addr) ==
    CASE n = 1 -> read_lb(m, addr)
      [] n = 2 -> read_lh(m, addr)
      [] n = 4 -> read_lw(m, addr)

\* Memory::write_byte, write_halfword, write_word of VectorMemory
Memory_write(m, n, addr, val) ==
    CASE n = 1 -> write_lb(m, addr, val)
      [] n = 2 -> write_lh(m, addr, val)
      [] n = 4 -> write_lw(m, addr, val)

InitMem ==
    /\ overflow_checks \in BOOLEAN
    /\ program = << >>
    /\ call_args = << >>
    /\ LET p == Processor_new(VectorMemory_new(MemBytes))
       IN  /\ pc = p.pc
           /\ regs = p.regs
           /\ csr = p.csr
           /\ mem = p.mem
           /\ mode = p.mode
           /\ has_jumped = p.has_jumped
           /\ old = p
    /\ res = "Ok"
    /\ call = "new"
    /\ decoded = NoInst
    /\ setup = 0
    /\ ticks = 0

\* memory.read_byte(addr), read_halfword(addr), read_word(addr)
MemRead ==
    /\ res # "panic"
    /\ ticks < MaxCalls
    /\ \E n \in {1, 2, 4}, a \in 0..(MemBytes - 1) :
          /\ call_args' = <<n, a>>
          /\ IF InBounds(mem, U32(a), n)
             THEN /\ res' = "Ok"
                  /\ decoded' = [r |-> "Ok", v |-> Memory_read(mem, n, U32(a))]
             ELSE /\ res' = "panic"
                  /\ decoded' = NoInst
    /\ call' = "read"
    /\ old' = Proc
    /\ ticks' = ticks + 1
    /\ UNCHANGED <<pc, regs, csr, mem, mode, has_jumped, overflow_checks, program, setup>>

\* memory.write_byte(addr, value), write_halfword(addr, value), write_word(addr, value)
MemWrite ==
    /\ res # "panic"
    /\ ticks < MaxCalls
    /\ \E n \in {1, 2, 4}, a \in 0..(MemBytes - 1) :
          \E value \in MemValues(n) :
             /\ call_args' = <<n, a, value>>
             /\ IF InBounds(mem, U32(a), n)
                THEN /\ res' = "Ok"
                     /\ mem' = Memory_write(mem, n, U32(a), value)
                ELSE /\ res' = "panic"
                     /\ mem' = mem
    /\ call' = "write"
    /\ decoded' = NoInst
    /\ old' = Proc
    /\ ticks' = ticks + 1
    /\ UNCHANGED <<pc, regs, csr, mode, has_jumped, overflow_checks, program, setup>>

NextMem == MemRead \/ MemWrite

SpecMem == InitMem /\ [][NextMem]_vars

---------------------------------------------------------------------------
(* The host runs the image with execute(), the loop over tick that ends at
   the first trap *)

ExecMemSize == 24
MaxLoops == 8

\* the program of tests::register_caluculation:
\* addi a5,a5,1; addi a5,a5,2; addi a6,a6,3; slli a6,a6,2; add a5,a5,a6
RegisterCalculation ==
    <<ADDI(15, 15, 1), ADDI(15, 15, 2), ADDI(16, 16, 3), OPIMM(1, 16, 16, 2),
      ADD(15, 15, 16)>>

InitExec ==
    /\ overflow_checks \in BOOLEAN
    /\ program \in Programs \cup {RegisterCalculation}
    /\ call_args = << >>
    /\ \E size \in {ExecMemSize - 4, ExecMemSize} :
          LET p == Processor_new(VectorMemory_new(size))
          IN  /\ pc = p.pc
              /\ regs = p.regs
              /\ csr = p.csr
              /\ mem = p.mem
              /\ mode = p.mode
              /\ has_jumped = p.has_jumped
              /\ old = p
    /\ res = "Ok"
    /\ call = "new"
    /\ decoded = NoInst
    /\ setup = 0
    /\ ticks = 0

\* execute() can be entered or its loop can turn once more: the process has
\* not aborted and no tick of this execute() has returned Err
InLoop ==
    /\ res # "panic"
    /\ call = "execute" => res = "Ok"
    /\ ticks < MaxLoops

\* the loop of execute() without its break: it ticks on after a trap
ExecuteStep_ignores_trap ==
    /\ res # "panic"
    /\ ticks < MaxLoops
    /\ LET x == tick(Proc)
       IN  /\ res' = x.r
           /\ IF x.r = "panic"
              THEN UNCHANGED <<pc, regs, csr, mem, mode, has_jumped>>
              ELSE /\ pc' = x.p.pc
                   /\ regs' = x.p.regs
                   /\ csr' = x.p.csr
                   /\ mem' = x.p.mem
                   /\ mode' = x.p.mode
                   /\ has_jumped' = x.p.has_jumped
    /\ old' = IF call = "execute" THEN old ELSE Proc
    /\ call' = "execute"
    /\ call_args' = << >>
    /\ decoded' = IF FetchReached(Proc) THEN decode(read_bw(mem, pc)) ELSE NoInst
    /\ ticks' = ticks + 1
    /\ UNCHANGED <<overflow_checks, program, setup>>

\* one turn of the loop of processor.execute(): the first turn enters
\* execute(), a turn whose tick returned Err leaves the loop and execute()
\* returns; old keeps the processor as it was when execute() was called and
\* ticks counts the calls of tick
ExecuteStep ==
    /\ InLoop
    /\ LET x == tick(Proc)
       IN  /\ res' = x.r
           /\ IF x.r = "panic"
              THEN UNCHANGED <<pc, regs, csr, mem, mode, has_jumped>>
              ELSE /\ pc' = x.p.pc
                   /\ regs' = x.p.regs
                   /\ csr' = x.p.csr
                   /\ mem' = x.p.mem
                   /\ mode' = x.p.mode
                   /\ has_jumped' = x.p.has_jumped
    /\ old' = IF call = "execute" THEN old ELSE Proc
    /\ call' = "execute"
    /\ call_args' = << >>
    /\ decoded' = IF FetchReached(Proc) THEN decode(read_bw(mem, pc)) ELSE NoInst
    /\ ticks' = ticks + 1
    /\ UNCHANGED <<overflow_checks, program, setup>>

NextExec == SetPc \/ LoadProgram \/ ExecuteStep

SpecExec == InitExec /\ [][NextExec]_vars

\* execute() is called once the host has set the processor up, and its loop
\* keeps turning until it is left: weak fairness of ExecuteStep, which is
\* enabled exactly when InLoop holds
SpecExecLive == SpecExec /\ ([]<>~InLoop \/ []<><<ExecuteStep>>_vars)

---------------------------------------------------------------------------
(* What the claims speak of *)

Four == <<0, 4>>
AllOnes == W(\hFFFF, \hFFFF)

\* the low n bits of word v as an n-bit two's-complement number, widened to 32 bits
SignExtendBits(v, n) == IF Bit(v, n - 1) = 1 THEN BitOr(v, Shl(AllOnes, n)) ELSE v

BranchOps == {"Beq", "Bne", "Blt", "Bge", "Bltu", "Bgeu"}

\* the condition of branch op on operands a and b
BranchHolds(op, a, b) ==
    CASE op = "Beq"  -> a = b
      [] op = "Bne"  -> a # b
      [] op = "Blt"  -> LtS(a, b)
      [] op = "Bge"  -> ~LtS(a, b)
      [] op = "Bltu" -> LtU(a, b)
      [] op = "Bgeu" -> ~LtU(a, b)

\* the last call was a tick that decoded an instruction with an op in ops
Executed(ops) == call = "tick" /\ decoded.res = "Ok" /\ decoded.op \in ops

\* the value register i held when the last call started
OldReg(i) == IF i = 0 THEN Zero ELSE old.regs[i]

\* the last tick executed a branch whose condition held
TakenBranch ==
    /\ Executed(BranchOps)
    /\ BranchHolds(decoded.op, OldReg(decoded.args.rs1), OldReg(decoded.args.rs2))

NotTakenBranch ==
    /\ Executed(BranchOps)
    /\ ~BranchHolds(decoded.op, OldReg(decoded.args.rs1), OldReg(decoded.args.rs2))

\* the word the last tick or decode call handed to decode
Fetched == IF call = "decode" THEN program[1] ELSE read_bw(old.mem, old.pc)

---------------------------------------------------------------------------
(* The claims *)

\* C1: register x0 holds 0 in every reachable state: an instruction whose rd
\* is 0 leaves regs[0] unchanged, and an instruction that names x0 as a source
\* reads 0 (an ADD or ADDI with rs1 = x0 writes its other operand into rd).
C1_X0HoldsZero ==
    /\ regs[0] = Zero
    /\ read_reg(Proc, 0) = Zero
    /\ (Executed({"Add"}) /\ res = "Ok" /\ decoded.args.rs1 = 0 /\ decoded.args.rd # 0)
          => regs[decoded.args.rd] = OldReg(decoded.args.rs2)
    /\ (Executed({"Addi"}) /\ res = "Ok" /\ decoded.args.rs1 = 0 /\ decoded.args.rd # 0)
          => regs[decoded.args.rd] = SignExtendBits(U32(decoded.args.imm), 12)

\* a tick executed ADDI x0, rs1, imm whose sum is not 0
C1_Witness ==
    /\ Executed({"Addi"})
    /\ res = "Ok"
    /\ decoded.args.rd = 0
    /\ wrapping_add(OldReg(decoded.args.rs1), SignExtendBits(U32(decoded.args.imm), 12)) # Zero

\* C2: a tick that returns Ok and executes an instruction that is neither a
\* taken branch nor JAL/JALR (every ALU, LUI, AUIPC, load, store, CSR and
\* not-taken branch instruction) leaves pc = pc before the tick + 4 mod 2^32.
C2_PcAdvancesByFour ==
    (/\ call = "tick"
     /\ res = "Ok"
     /\ decoded.res = "Ok"
     /\ decoded.op \notin {"Jal", "Jalr"}
     /\ ~TakenBranch)
    => pc = wrapping_add(old.pc, Four)

\* the target a jump or taken branch names: pc + offset for JAL and the
\* branches, (rs1 + imm) with bit 0 cleared for JALR
TransferTarget ==
    CASE decoded.op = "Jal" ->
             wrapping_add(old.pc, SignExtendBits(decoded.args.imm, 21))
      [] decoded.op = "Jalr" ->
             BitAnd(wrapping_add(OldReg(decoded.args.rs1),
                                 SignExtendBits(U32(decoded.args.imm), 12)),
                    W(\hFFFF, \hFFFE))
      [] OTHER ->
             wrapping_add(old.pc, SignExtendBits(U32(decoded.args.imm), 13))

\* the last tick executed a jump or a taken branch
Transfer == Executed({"Jal", "Jalr"}) \/ TakenBranch

\* C3: pc is a multiple of 4 whenever a tick starts, and a jump or taken
\* branch that would produce a pc that is not a multiple of 4 returns
\* InstructionAddressMisaligned instead of changing pc.
C3_PcAlignedOrTrap ==
    /\ ~Misaligned4(pc)
    /\ (Transfer /\ Misaligned4(TransferTarget))
          => (res = "InstructionAddressMisaligned" /\ pc = old.pc)

\* C4: a branch whose condition holds and whose 13-bit offset is a multiple
\* of 4 leaves pc = pc before the tick + the offset read as a 13-bit
\* two's-complement number, mod 2^32, and no extra 4 is added.
C4_TakenBranchTarget ==
    (TakenBranch /\ decoded.args.imm % 4 = 0)
    => (/\ res = "Ok"
        /\ pc = wrapping_add(old.pc, SignExtendBits(U32(decoded.args.imm), 13)))

\* C5: a branch whose offset is not a multiple of 4 returns
\* InstructionAddressMisaligned with pc unchanged when its condition holds;
\* when the condition does not hold there is no trap, the registers are
\* unchanged and pc advances by 4.
C5_MisalignedBranch ==
    /\ (TakenBranch /\ decoded.args.imm % 4 # 0)
          => (res = "InstructionAddressMisaligned" /\ pc = old.pc)
    /\ (NotTakenBranch /\ decoded.args.imm % 4 # 0)
          => (res = "Ok" /\ regs = old.regs /\ pc = wrapping_add(old.pc, Four))

\* a tick executed a branch with a misaligned offset whose condition held
C5_Witness ==
    /\ TakenBranch
    /\ decoded.args.imm % 4 # 0
    /\ res = "InstructionAddressMisaligned"

\* a tick executed a branch with a misaligned offset whose condition did not hold
C5_WitnessNotTaken ==
    /\ NotTakenBranch
    /\ decoded.args.imm % 4 # 0
    /\ res = "Ok"

\* C6: a JAL whose 21-bit offset gives a 4-aligned target leaves pc = pc
\* before the tick + the offset read as a 21-bit two's-complement number,
\* mod 2^32, and rd (if not x0) = pc before the tick + 4, for every offset
\* in [-2^20, 2^20 - 2], positive offsets with bit 19 set included.
C6_JalTarget ==
    (Executed({"Jal"}) /\ ~Misaligned4(TransferTarget))
    => (/\ res = "Ok"
        /\ pc = TransferTarget
        /\ decoded.args.rd # 0 => regs[decoded.args.rd] = wrapping_add(old.pc, Four))

\* C7: JALR computes target = (rs1 + sign_extend_12(imm)) mod 2^32 with bit 0
\* cleared; if target is a multiple of 4 then pc becomes target and rd
\* receives pc before the tick + 4 (rs1 is read before rd is written);
\* otherwise it returns InstructionAddressMisaligned with pc and rd unchanged.
C7_Jalr ==
    Executed({"Jalr"})
    => IF ~Misaligned4(TransferTarget)
       THEN /\ res = "Ok"
            /\ pc = TransferTarget
            /\ decoded.args.rd # 0 => regs[decoded.args.rd] = wrapping_add(old.pc, Four)
            /\ \A i \in 1..31 : i # decoded.args.rd => regs[i] = old.regs[i]
       ELSE /\ res = "InstructionAddressMisaligned"
            /\ pc = old.pc
            /\ regs = old.regs

\* C8: decode is total: it returns a decoded instruction or a trap and never
\* aborts; a word with opcode 0110011, funct3 000 or 101 and funct7 outside
\* {0000000, 0100000} yields IllegalInstruction.
C8_DecodeTotal ==
    call = "decode"
    => (/\ decoded.res # "panic"
        /\ (/\ get_bits(Fetched, 0, 7) = 51
            /\ get_bits(Fetched, 12, 15) \in {0, 5}
            /\ get_bits(Fetched, 25, 32) \notin {0, 32})
              => decoded.res = "IllegalInstruction")

\* the funct3 values listed for each listed opcode
ListedFunct3(opcode) ==
    CASE opcode = 51  -> 0..7
      [] opcode = 19  -> 0..7
      [] opcode = 3   -> {0, 1, 2, 4, 5}
      [] opcode = 35  -> {0, 1, 2}
      [] opcode = 99  -> {0, 1, 4, 5, 6, 7}
      [] opcode = 103 -> {0}
      [] opcode = 115 -> {1, 2, 3, 5, 6, 7}
      [] opcode \in {111, 55, 23} -> 0..7
      [] OTHER -> {}

\* C9: decode returns IllegalInstruction for every word whose opcode is not
\* listed or whose funct3 is not listed for its opcode, JALR with funct3
\* other than 000 and opcode 1110011 with funct3 000 or 100 included.
C9_UnlistedIsIllegal ==
    (call = "decode" /\ get_bits(Fetched, 12, 15) \notin ListedFunct3(get_bits(Fetched, 0, 7)))
    => decoded.res = "IllegalInstruction"

\* pc + 4 exceeds the memory length, as numbers
ExceedsMemory(p) == AddOverflowsU32(p.pc, Four) \/ LtU(U32(MemLen(p.mem)), wrapping_add(p.pc, Four))

\* C10: for every pc and memory length, tick returns InstructionAccessFault
\* when pc + 4 exceeds the memory length, without fetching and without
\* changing pc, registers, CSRs or memory; otherwise it fetches the word at pc.
C10_FetchFault ==
    call = "tick"
    => IF ExceedsMemory(old)
       THEN /\ res = "InstructionAccessFault"
            /\ decoded = NoInst
            /\ Proc = old
       ELSE decoded = decode(read_bw(old.mem, old.pc))

\* the numeric code of a privilege mode
ModeNumber(m) == CASE m = "User" -> 0 [] m = "Supervisor" -> 1 [] m = "Machine" -> 3

\* bits [hi:lo] of a CSR address
AddrBits(addr, hi, lo) == (addr \div Pow2(lo)) % Pow2(hi - lo + 1)

\* the mode of the last Csr::read or Csr::write is below the level its address asks for
PrivilegeDenied == ModeNumber(call_args[2]) < AddrBits(call_args[1], 9, 8)

\* the last Csr call named a register of the file that its mode may write
CsrWritable ==
    /\ call_args[1] < 4096
    /\ AddrBits(call_args[1], 11, 10) # 3
    /\ ~PrivilegeDenied

\* C11: Csr::read and Csr::write with a mode whose code (User 0, Supervisor 1,
\* Machine 3) is less than bits [9:8] of the address return IllegalInstruction
\* and the failed write leaves every CSR unchanged; an address of 4096 or
\* more returns IllegalInstruction too.
C11_CsrDenied ==
    (call \in {"read", "write"} /\ (PrivilegeDenied \/ call_args[1] >= 4096))
    => (res = "IllegalInstruction" /\ csr = old.csr)

\* a write of a non-zero value to a file that holds one was denied for its mode
C11_Witness ==
    /\ call = "write"
    /\ call_args[1] < 4096
    /\ PrivilegeDenied
    /\ call_args[3] # Zero
    /\ csr # Csr_new
    /\ res = "IllegalInstruction"

\* C12: Csr::write to an address whose bits [11:10] are 0b11, at a mode that
\* passes the privilege check, returns success and leaves that register and
\* every other CSR unchanged.
C12_ReadOnlyWrite ==
    (/\ call = "write"
     /\ call_args[1] < 4096
     /\ AddrBits(call_args[1], 11, 10) = 3
     /\ ~PrivilegeDenied)
    => (res = "Ok" /\ csr = old.csr)

\* a non-zero value was written to a read-only address at a permitted mode
C12_Witness ==
    /\ call = "write"
    /\ call_args[1] < 4096
    /\ AddrBits(call_args[1], 11, 10) = 3
    /\ ~PrivilegeDenied
    /\ call_args[3] # Zero
    /\ csr # Csr_new
    /\ res = "Ok"

\* C13: for every address a < 4096 whose bits [11:10] are not 0b11 and every
\* mode that passes the privilege check, Csr::write(a, v, mode) succeeds and
\* changes no CSR other than a, and a Csr::read(a, mode) that follows it
\* returns v.
C13_WriteThenRead ==
    /\ []((call = "write" /\ CsrWritable)
            => (/\ res = "Ok"
                /\ \A a \in (DOMAIN csr \cup DOMAIN old.csr) \ {call_args[1]} :
                      CsrReg(csr, a) = CsrReg(old.csr, a)))
    /\ [][(/\ call = "write"
           /\ CsrWritable
           /\ call' = "read"
           /\ call_args'[1] = call_args[1]
           /\ call_args'[2] = call_args[2])
          => (res' = "Ok" /\ decoded'.v = call_args[3])]_vars

\* the second of two calls read back the value the first one wrote
C13_Witness ==
    /\ call = "read"
    /\ ticks = 2
    /\ res = "Ok"
    /\ decoded.v = W(\hFFFF, \hFFFF)
    /\ DOMAIN csr = {call_args[1]}

\* the value register i holds now, as an instruction reads it
Reg(i) == IF i = 0 THEN Zero ELSE regs[i]

\* every CSR other than addr holds what it held when the last call started
OtherCsrsUnchanged(addr) ==
    \A a \in (DOMAIN csr \cup DOMAIN old.csr) \ {addr} : CsrReg(csr, a) = CsrReg(old.csr, a)

\* C14: CSRRW on a writable address with rs1 = x followed by CSRRW on the
\* same address with rs1 = y leaves the CSR equal to y, and the second
\* instruction writes x into its rd; each CSRRW writes the CSR's previous
\* value into rd.
C14_CsrrwTwice ==
    /\ []((Executed({"Csrrw"}) /\ AddrBits(decoded.args.imm, 11, 10) # 3)
            => (/\ res = "Ok"
                /\ decoded.args.rd # 0
                      => regs[decoded.args.rd] = CsrReg(old.csr, decoded.args.imm)))
    /\ [][(/\ Executed({"Csrrw"})
           /\ AddrBits(decoded.args.imm, 11, 10) # 3
           /\ call' = "tick"
           /\ decoded'.res = "Ok"
           /\ decoded'.op = "Csrrw"
           /\ decoded'.args.imm = decoded.args.imm)
          => (/\ res' = "Ok"
              /\ CsrReg(csr', decoded.args.imm) = Reg(decoded'.args.rs1)
              /\ decoded'.args.rd # 0
                    => regs'[decoded'.args.rd] = OldReg(decoded.args.rs1))]_vars

\* the register operand of CSRRW/CSRRS/CSRRC, the zero-extended 5-bit rs1
\* field of CSRRWI/CSRRSI/CSRRCI, as it was before the last tick
CsrOperand ==
    IF decoded.op \in {"Csrrw", "Csrrs", "Csrrc"}
    THEN OldReg(decoded.args.rs1)
    ELSE U32(decoded.args.rs1)

\* the value a CSR instruction leaves in a writable CSR that held oldv
CsrNew(op, oldv, x) ==
    CASE op \in {"Csrrw", "Csrrwi"} -> x
      [] op \in {"Csrrs", "Csrrsi"} -> BitOr(oldv, x)
      [] op \in {"Csrrc", "Csrrci"} -> BitAnd(oldv, BitNot(x))

\* C15: for a writable CSR with previous value old, CSRRS leaves old | rs1,
\* CSRRC old & ~rs1, CSRRWI the zero-extended 5-bit rs1 field, CSRRSI old |
\* that field, CSRRCI old & ~that field; rd receives old and no other CSR
\* changes.
C15_CsrSetClear ==
    (/\ Executed({"Csrrs", "Csrrc", "Csrrwi", "Csrrsi", "Csrrci"})
     /\ AddrBits(decoded.args.imm, 11, 10) # 3)
    => (/\ res = "Ok"
        /\ CsrReg(csr, decoded.args.imm)
              = CsrNew(decoded.op, CsrReg(old.csr, decoded.args.imm), CsrOperand)
        /\ decoded.args.rd # 0
              => regs[decoded.args.rd] = CsrReg(old.csr, decoded.args.imm)
        /\ OtherCsrsUnchanged(decoded.args.imm))

\* C16: on VectorMemory, for every address whose bytes are in range,
\* write_word, write_halfword and write_byte succeed and a read of the same
\* width at the same address that follows returns the value written; the
\* layout is little-endian: read_word(a) = byte(a) + 2^8 byte(a+1) +
\* 2^16 byte(a+2) + 2^24 byte(a+3).
C16_MemoryRoundTrip ==
    /\ []((call \in {"read", "write"} /\ call_args[2] + call_args[1] <= MemBytes) => res = "Ok")
    /\ []((call = "read" /\ res = "Ok" /\ call_args[1] = 4)
            => decoded.v = <<mem[call_args[2] + 3] * 256 + mem[call_args[2] + 2],
                             mem[call_args[2] + 1] * 256 + mem[call_args[2]]>>)
    /\ [][(/\ call = "write"
           /\ res = "Ok"
           /\ call' = "read"
           /\ call_args'[1] = call_args[1]
           /\ call_args'[2] = call_args[2])
          => (res' = "Ok" /\ decoded'.v = call_args[3])]_vars

\* the second of two calls read back the word 0x12345678 the first one wrote
C16_Witness ==
    /\ call = "read"
    /\ ticks = 2
    /\ res = "Ok"
    /\ call_args[1] = 4
    /\ decoded.v = W(\h1234, \h5678)
    /\ mem[call_args[2]] = \h78

\* C17: Processor::load(base, words) with a 4-aligned base and an image that
\* fits in memory stores word i big-endian at base + 4*i, so that the four
\* bytes read_inst assembles there are those of words[i], and the bytes
\* outside [base, base + 4*len(words)) are unchanged.
C17_LoadStoresImage ==
    (/\ call = "load"
     /\ ~Misaligned4(call_args[1])
     /\ call_args[1][2] + 4 * Len(program) <= MemLen(old.mem))
    => (/\ res = "Ok"
        /\ \A i \in 1..Len(program) :
              LET a == call_args[1][2] + 4 * (i - 1)
              IN  /\ mem[a] = program[i][1] \div 256
                  /\ mem[a + 1] = program[i][1] % 256
                  /\ mem[a + 2] = program[i][2] \div 256
                  /\ mem[a + 3] = program[i][2] % 256
        /\ \A b \in DOMAIN mem :
              (b < call_args[1][2] \/ b >= call_args[1][2] + 4 * Len(program))
              => mem[b] = old.mem[b])

\* a load at address 4 into a memory that already held an image at address 0
C17_Witness ==
    /\ call = "load"
    /\ res = "Ok"
    /\ call_args[1] = U32(4)
    /\ \E b \in 0..3 : old.mem[b] # 0
    /\ \E b \in 4..7 : mem[b] # old.mem[b]

\* the instruction word with its low 12 bits cleared
UpperImmediate(w) == BitAnd(w, W(\hFFFF, \hF000))

\* C18: a LUI instruction word w fetched, decoded and executed by tick leaves
\* rd equal to w with its low 12 bits cleared.
C18_LuiThroughTick ==
    Executed({"Lui"})
    => (/\ res = "Ok"
        /\ decoded.args.rd # 0 => regs[decoded.args.rd] = UpperImmediate(Fetched))

\* C19: an AUIPC instruction word w fetched at address p, decoded and
\* executed by tick leaves rd equal to p + (w with its low 12 bits cleared)
\* mod 2^32 and pc equal to p + 4.
C19_AuipcThroughTick ==
    Executed({"Auipc"})
    => (/\ res = "Ok"
        /\ pc = wrapping_add(old.pc, Four)
        /\ decoded.args.rd # 0
              => regs[decoded.args.rd] = wrapping_add(old.pc, UpperImmediate(Fetched)))

\* C20: ADD writes (rs1 + rs2) mod 2^32 into rd and SUB writes
\* (rs1 - rs2) mod 2^32, the value that added to rs2 gives rs1, for all
\* operand values.
C20_AddSubWrap ==
    /\ Executed({"Add"})
          => (/\ res = "Ok"
              /\ decoded.args.rd # 0
                    => regs[decoded.args.rd]
                         = wrapping_add(OldReg(decoded.args.rs1), OldReg(decoded.args.rs2)))
    /\ Executed({"Sub"})
          => (/\ res = "Ok"
              /\ decoded.args.rd # 0
                    => wrapping_add(regs[decoded.args.rd], OldReg(decoded.args.rs2))
                         = OldReg(decoded.args.rs1))

\* a tick executed ADD on 0x7FFFFFFF and 0x00007FFF and wrote 0x80007FFE
C20_Witness ==
    /\ Executed({"Add"})
    /\ res = "Ok"
    /\ OldReg(decoded.args.rs1) = W(\h7FFF, \hFFFF)
    /\ OldReg(decoded.args.rs2) = W(0, \h7FFF)
    /\ regs[decoded.args.rd] = W(\h8000, \h7FFE)

\* a tick executed SUB on 3 and 7 and wrote 0xFFFFFFFC
C20_WitnessSub ==
    /\ Executed({"Sub"})
    /\ res = "Ok"
    /\ OldReg(decoded.args.rs1) = W(0, 3)
    /\ OldReg(decoded.args.rs2) = W(0, 7)
    /\ regs[decoded.args.rd] = W(\hFFFF, \hFFFC)

\* C21: ADDI writes (rs1 + sign_extend_12(imm)) mod 2^32 into rd for every rs1
\* value and every 12-bit immediate, also when the signed sum leaves the
\* 32-bit signed range, and the tick completes.
C21_AddiWraps ==
    Executed({"Addi"})
    => (/\ res = "Ok"
        /\ decoded.args.rd # 0
              => regs[decoded.args.rd]
                   = wrapping_add(OldReg(decoded.args.rs1),
                                  SignExtendBits(U32(decoded.args.imm), 12)))

\* bit i of word x shifted by n places: left, right with zero fill, or right
\* with bit 31 of x replicated
ShiftedBit(op, x, n, i) ==
    CASE op \in {"Sll", "Slli"} -> (IF i >= n THEN Bit(x, i - n) ELSE 0)
      [] op \in {"Srl", "Srli"} -> (IF i + n <= 31 THEN Bit(x, i + n) ELSE 0)
      [] op \in {"Sra", "Srai"} -> (IF i + n <= 31 THEN Bit(x, i + n) ELSE Bit(x, 31))

\* the last tick left in rd the value of rs1 shifted by n places
ShiftedBy(n) ==
    decoded.args.rd # 0
    => \A i \in 0..31 :
          Bit(regs[decoded.args.rd], i)
            = ShiftedBit(decoded.op, OldReg(decoded.args.rs1), n, i)

\* C22: SLL, SRL and SRA shift rs1 by the low 5 bits of rs2 for every value of
\* rs2, values of 32 or more included, and the tick completes.
C22_RegisterShifts ==
    Executed({"Sll", "Srl", "Sra"})
    => (/\ res = "Ok"
        /\ ShiftedBy(OldReg(decoded.args.rs2)[2] % 32))

\* C23: SLLI, SRLI and SRAI shift rs1 by imm & 0x1f and the tick completes;
\* SRL and SRLI fill the vacated high bits with 0, SRA and SRAI with bit 31
\* of rs1.
C23_ImmediateShifts ==
    /\ Executed({"Slli", "Srli", "Srai"})
          => (/\ res = "Ok"
              /\ ShiftedBy(decoded.args.imm % 32))
    /\ Executed({"Srl", "Sra"}) /\ res = "Ok"
          => ShiftedBy(OldReg(decoded.args.rs2)[2] % 32)

\* SRLI and then SRAI shifted 0x80000000 right by 4: 0x08000000 and 0xF8000000
C23_Witness ==
    /\ Executed({"Srai"})
    /\ res = "Ok"
    /\ OldReg(decoded.args.rs1) = W(\h8000, 0)
    /\ decoded.args.imm % 32 = 4
    /\ regs[decoded.args.rd] = W(\hF800, 0)
    /\ regs[2] = W(\h0800, 0)

\* word w read as a 32-bit two's-complement number
SignedValue(w) ==
    IF w[1] >= 32768 THEN (w[1] - 65536) * 65536 + w[2] ELSE w[1] * 65536 + w[2]

\* a is below b when both are read as unsigned numbers: they differ, and at
\* the highest bit where they differ b has the 1
UnsignedLess(a, b) ==
    \E i \in 0..31 :
       /\ Bit(a, i) < Bit(b, i)
       /\ \A j \in (i + 1)..31 : Bit(a, j) = Bit(b, j)

\* the second operand of the last comparison: rs2, or the 12-bit immediate
\* sign-extended to 32 bits
CompareOperand ==
    IF decoded.op \in {"Slt", "Sltu"}
    THEN OldReg(decoded.args.rs2)
    ELSE SignExtendBits(U32(decoded.args.imm), 12)

\* C24: SLT and SLTI write 1 into rd iff rs1 is below the second operand as
\* two's-complement numbers, SLTU and SLTIU iff it is below as unsigned
\* numbers, and 0 otherwise; the second operand of SLTI and SLTIU is the
\* immediate sign-extended to 32 bits.
C24_SetLessThan ==
    /\ Executed({"Slt", "Slti"})
          => (/\ res = "Ok"
              /\ decoded.args.rd # 0
                    => regs[decoded.args.rd]
                         = (IF SignedValue(OldReg(decoded.args.rs1)) < SignedValue(CompareOperand)
                            THEN <<0, 1>> ELSE Zero))
    /\ Executed({"Sltu", "Sltiu"})
          => (/\ res = "Ok"
              /\ decoded.args.rd # 0
                    => regs[decoded.args.rd]
                         = (IF UnsignedLess(OldReg(decoded.args.rs1), CompareOperand)
                            THEN <<0, 1>> ELSE Zero))

\* SLTIU with immediate 0xFFF compared 0xFFFFF800 against 0xFFFFFFFF and
\* wrote 1, after SLTI and SLTIU against 2047 wrote 1 and 0
C24_Witness ==
    /\ Executed({"Sltiu"})
    /\ res = "Ok"
    /\ decoded.args.imm = 4095
    /\ OldReg(decoded.args.rs1) = W(\hFFFF, \hF800)
    /\ regs[decoded.args.rd] = <<0, 1>>
    /\ regs[2] = <<0, 1>>
    /\ regs[3] = Zero

LoadOps == {"Lb", "Lh", "Lw", "Lbu", "Lhu"}
StoreOps == {"Sb", "Sh", "Sw"}

\* the number of bytes a load or store moves
AccessWidth(op) ==
    CASE op \in {"Lb", "Lbu", "Sb"} -> 1
      [] op \in {"Lh", "Lhu", "Sh"} -> 2
      [] op \in {"Lw", "Sw"} -> 4

\* the 12-bit immediate of the last instruction, sign-extended to 32 bits
Offset == SignExtendBits(U32(decoded.args.imm), 12)

\* rs1 + sign_extend_12(imm) mod 2^32 of the last load or store
EffectiveAddress == wrapping_add(OldReg(decoded.args.rs1), Offset)

\* the bytes the last load or store moves lie inside the memory, and the
\* sum of base and offset needs no reduction mod 2^32
AccessInMemory ==
    /\ EffectiveAddress[1] = 0
    /\ EffectiveAddress[2] + AccessWidth(decoded.op) <= MemLen(old.mem)
AddressCarries == AddOverflowsU32(OldReg(decoded.args.rs1), Offset)

\* byte k of the memory, counted from the effective address, before the call
ByteAt(k) == old.mem[EffectiveAddress[2] + k]

\* what the claim has the load write into rd
Loaded ==
    CASE decoded.op = "Lb"  -> SignExtendBits(U32(ByteAt(0)), 8)
      [] decoded.op = "Lbu" -> U32(ByteAt(0))
      [] decoded.op = "Lh"  -> SignExtendBits(U32(ByteAt(0) + 256 * ByteAt(1)), 16)
      [] decoded.op = "Lhu" -> U32(ByteAt(0) + 256 * ByteAt(1))
      [] decoded.op = "Lw"  -> W(ByteAt(3) * 256 + ByteAt(2), ByteAt(1) * 256 + ByteAt(0))

\* C25: a load whose bytes lie in memory completes and writes into rd the
\* byte or halfword at the effective address sign-extended (LB, LH) or
\* zero-extended (LBU, LHU) to 32 bits, or the little-endian word (LW).
C25_Loads ==
    Executed(LoadOps)
    => (/\ AccessInMemory /\ ~AddressCarries => res = "Ok"
        /\ res = "Ok" /\ decoded.args.rd # 0 => regs[decoded.args.rd] = Loaded)

\* with 0x80, 0x80, 0x08, 0x08 at address 4, LB wrote 0xFFFFFF80 and then
\* LH wrote 0xFFFF8080
C25_Witness ==
    /\ Executed({"Lh"})
    /\ res = "Ok"
    /\ EffectiveAddress = <<0, 4>>
    /\ <<mem[4], mem[5], mem[6], mem[7]>> = <<128, 128, 8, 8>>
    /\ regs[1] = W(\hFFFF, \hFF80)
    /\ regs[2] = W(\hFFFF, \h8080)

\* byte k (0 = least significant) of word w
ByteOf(w, k) == IF k < 2 THEN (w[2] \div Pow2(8 * k)) % 256 ELSE (w[1] \div Pow2(8 * (k - 2))) % 256

\* the addresses of the bytes the last store is to write
StoreRange == {EffectiveAddress[2] + k : k \in 0..(AccessWidth(decoded.op) - 1)}

\* C26: a store whose bytes lie in memory completes; SB, SH and SW write the
\* low 1, 2 and 4 bytes of rs2 at the effective address, least significant
\* byte first, and leave every other byte of memory, every register and
\* every CSR as it was.
C26_Stores ==
    Executed(StoreOps)
    => (/\ AccessInMemory /\ ~AddressCarries => res = "Ok"
        /\ res = "Ok"
              => (/\ \A k \in 0..(AccessWidth(decoded.op) - 1) :
                        mem[EffectiveAddress[2] + k] = ByteOf(OldReg(decoded.args.rs2), k)
                  /\ DOMAIN mem = DOMAIN old.mem
                  /\ \A a \in DOMAIN mem \ StoreRange : mem[a] = old.mem[a]
                  /\ regs = old.regs
                  /\ csr = old.csr))

\* SH stored 0xA5, 0xFA of rs2 = 0xFFFFFAA5 at 13 and 14, over two bytes of
\* the image that held other values, with CSR 0x300 holding 7
C26_Witness ==
    /\ Executed({"Sh"})
    /\ res = "Ok"
    /\ OldReg(decoded.args.rs2) = W(\hFFFF, \hFAA5)
    /\ EffectiveAddress = <<0, 13>>
    /\ <<mem[13], mem[14]>> = <<165, 250>>
    /\ old.mem[13] # 165 /\ old.mem[14] # 250
    /\ <<mem[12], mem[15]>> = <<old.mem[12], old.mem[15]>>
    /\ mem[15] # 0
    /\ CsrReg(csr, 768) = <<0, 7>>

\* the memory of tests::register_caluculation: 24 zero bytes with the program
\* loaded at address 4
ScenarioMemory ==
    load(Processor_new(VectorMemory_new(24)), <<0, 4>>, RegisterCalculation).p.mem

\* execute() was called with zeroed registers, pc = 4 and that memory
Scenario ==
    /\ call = "execute"
    /\ old.pc = <<0, 4>>
    /\ old.regs = [i \in 0..31 |-> Zero]
    /\ old.mem = ScenarioMemory

\* execute() has returned from the scenario: the sixth tick trapped at pc = 24
ScenarioDone ==
    /\ Scenario
    /\ ticks = 6
    /\ res = "InstructionAccessFault"
    /\ pc = <<0, 24>>
    /\ regs[15] = <<0, 15>>
    /\ regs[16] = <<0, 12>>

\* C27: from zeroed registers, pc = 4 and a 24-byte memory with the
\* five-instruction program at address 4, execute() makes five ticks that
\* return Ok, one instruction each, and ends at the sixth, which returns
\* InstructionAccessFault at pc = 24, with regs[15] = 15 and regs[16] = 12.
C27_RegisterCalculation ==
    /\ [](Scenario
            => (/\ ticks <= 5 => res = "Ok" /\ pc = U32(4 + 4 * ticks)
                /\ ticks >= 6 => ScenarioDone))
    /\ (Scenario ~> ScenarioDone)

\* execute() has returned from the scenario, one tick after the ADD at
\* pc = 20 was executed
C27_Witness ==
    /\ ScenarioDone
    /\ decoded = NoInst
    /\ mem = ScenarioMemory
    /\ has_jumped = FALSE

\* C28: a load or store whose bytes do not all lie inside the memory makes
\* tick return LoadAccessFault or StoreAccessFault, and memory keeps its
\* contents; the process is not aborted.
C28_AccessFault ==
    Executed(LoadOps \cup StoreOps) /\ ~AccessInMemory
    => (/\ res = (IF decoded.op \in LoadOps THEN "LoadAccessFault" ELSE "StoreAccessFault")
        /\ mem = old.mem)

\* C29: the privilege mode is Machine after Processor::new and in every state
\* reached through set_pc, load and tick.
C29_ModeIsMachine == mode = "Machine"

\* after set_pc and load, a tick that trapped and a later tick that wrote a
\* CSR have left the mode Machine
C29_Witness ==
    /\ mode = "Machine"
    /\ setup = MaxSetup
    /\ call = "tick"
    /\ ticks >= 2
    /\ res # "Ok" /\ res # "panic"
    /\ csr # Csr_new

\* C30: the jumped flag is false whenever a tick can start: after
\* Processor::new, after every tick that returns Ok and after every tick that
\* returns a trap.
C30_JumpedFlagClear == has_jumped = FALSE

\* JAL jumped from 0 to 8 and the next tick, a taken branch to a misaligned
\* target, trapped; the flag is false
C30_Witness ==
    /\ has_jumped = FALSE
    /\ call = "tick"
    /\ ticks = 2
    /\ decoded.res = "Ok"
    /\ decoded.op \in BranchOps
    /\ res = "InstructionAddressMisaligned"
    /\ old.pc = <<0, 8>>
    /\ regs[1] = <<0, 4>>

BImmBit(w, i) ==
    CASE i = 0 -> 0
      [] i \in 1..4 -> Bit(w, 7 + i)
      [] i \in 5..10 -> Bit(w, 20 + i)
      [] i = 11 -> Bit(w, 7)
      [] i = 12 -> Bit(w, 31)
      [] OTHER -> 0

\* bit i of the byte offset that a J-type word w carries:
\* {inst[31], inst[19:12], inst[20], inst[30:21], 0}
JImmBit(w, i) ==
    CASE i = 0 -> 0
      [] i \in 1..10 -> Bit(w, 20 + i)
      [] i = 11 -> Bit(w, 20)
      [] i \in 12..19 -> Bit(w, i)
      [] i = 20 -> Bit(w, 31)
      [] OTHER -> 0

\* C32: decode stores the B-type immediate as the unsigned 13-bit value
\* {inst[31], inst[7], inst[30:25], inst[11:8], 0} and the J-type immediate as
\* the unsigned 21-bit value {inst[31], inst[19:12], inst[20], inst[30:21], 0};
\* bit 0 of both is 0 and a branch offset is no multiple of 4 exactly when
\* inst[8] is 1.
C32_BranchJumpImmediates ==
    call = "decode" /\ decoded.res = "Ok"
    => (/\ decoded.op \in BranchOps
              => (/\ \A i \in 0..15 :
                        Bit(U32(decoded.args.imm), i) = BImmBit(Fetched, i)
                  /\ decoded.args.imm % 2 = 0
                  /\ decoded.args.imm % 4 # 0 <=> Bit(Fetched, 8) = 1)
        /\ decoded.op = "Jal"
              => (/\ \A i \in 0..31 : Bit(decoded.args.imm, i) = JImmBit(Fetched, i)
                  /\ Bit(decoded.args.imm, 0) = 0))

\* decode of a BNE word with inst[31] = 1, inst[8] = 1 and the other
\* immediate bits 0 gave the offset 0x1002
C32_Witness ==
    /\ call = "decode"
    /\ decoded.res = "Ok"
    /\ decoded.op = "Bne"
    /\ Fetched = W(\h8000, \h1163)
    /\ decoded.args.imm = 4098

\* C33: a JAL that returns InstructionAddressMisaligned has not written rd:
\* every register and pc hold the values they held before the tick.
C33_JalTrapKeepsRd ==
    Executed({"Jal"}) /\ res = "InstructionAddressMisaligned"
    => (/\ regs = old.regs
        /\ pc = old.pc)

\* the last call was a tick that returned a trap
Trapped == call = "tick" /\ res # "Ok" /\ res # "panic"

\* C34: a tick that returns a trap (fetch fault, decode trap, CSR trap,
\* misaligned jump or branch) leaves pc, every CSR and every byte of memory
\* as they were before the tick.
C34_TrapFrame ==
    Trapped
    => (/\ pc = old.pc
        /\ csr = old.csr
        /\ mem = old.mem)

\* a taken branch to a misaligned target trapped at pc = 4 with CSR 0x300
\* holding 7 and the image in memory
C34_Witness ==
    /\ Trapped
    /\ decoded.res = "Ok"
    /\ decoded.op \in BranchOps
    /\ res = "InstructionAddressMisaligned"
    /\ pc = <<0, 4>>
    /\ CsrReg(csr, 768) = <<0, 7>>
    /\ read_bw(mem, <<0, 8>>) = JAL(1, 2)

CsrOps == {"Csrrw", "Csrrs", "Csrrc", "Csrrwi", "Csrrsi", "Csrrci"}

\* C35: a CSR instruction executed by tick never returns a trap, whatever its
\* 12-bit CSR address: the address is below 4096 and the code of the mode,
\* 3 for Machine, is never below address bits [9:8].
C35_CsrNeverTraps ==
    Executed(CsrOps)
    => (/\ res = "Ok"
        /\ decoded.args.imm < 4096
        /\ ModeNumber(mode) >= AddrBits(decoded.args.imm, 9, 8)
        /\ \A addr \in 0..4095 :
              /\ read_csr(old, addr).r = "Ok"
              /\ write_csr(old, addr, AllOnes).r = "Ok")

\* CSRRSI on address 0x3FF, whose bits [9:8] ask for the highest level,
\* returned Ok and set bits in the CSR
C35_Witness ==
    /\ Executed({"Csrrsi"})
    /\ res = "Ok"
    /\ decoded.args.imm = 1023
    /\ AddrBits(decoded.args.imm, 9, 8) = 3
    /\ CsrReg(csr, 1023) = <<0, 15>>

\* C36: CSRRW, CSRRS and CSRRC combine into the CSR the value rs1 held before
\* the instruction, also when rd and rs1 are the same register, and rd
\* receives the previous value of the CSR: CSRRW x5, csr, x5 swaps the two.
C36_CsrReadsRs1First ==
    Executed({"Csrrw", "Csrrs", "Csrrc"}) /\ AddrBits(decoded.args.imm, 11, 10) # 3
    => (/\ res = "Ok"
        /\ CsrReg(csr, decoded.args.imm)
             = CsrNew(decoded.op, CsrReg(old.csr, decoded.args.imm),
                      OldReg(decoded.args.rs1))
        /\ decoded.args.rd # 0
              => regs[decoded.args.rd] = CsrReg(old.csr, decoded.args.imm))

\* C37: in every state reached through new, set_pc, load and ticks, every
\* CSR whose address bits [11:10] are 0b11 holds 0, and a CSR instruction on
\* such an address writes 0 into rd.
C37_ReadOnlyCsrsZero ==
    /\ \A addr \in 3072..4095 : CsrReg(csr, addr) = Zero
    /\ Executed(CsrOps) /\ AddrBits(decoded.args.imm, 11, 10) = 3 /\ decoded.args.rd # 0
          => regs[decoded.args.rd] = Zero

\* after CSRRWI tried to write 9 into 0xF00 and CSRRSI to set bits in 0xFFF,
\* CSRRSI read 0xF00 into x4 and the value is 0
C37_Witness ==
    /\ Executed({"Csrrsi"})
    /\ decoded.args.imm = 3840
    /\ decoded.args.rd = 4
    /\ ticks = 4
    /\ regs[4] = Zero
    /\ CsrReg(csr, 3840) = Zero
    /\ CsrReg(csr, 4095) = Zero

\* the instructions that can redirect pc
TransferOps == BranchOps \cup {"Jal", "Jalr", "Auipc"}

\* no word of memory m at pc0, pc0 + 4, ... up to the end of m decodes to a
\* branch, JAL, JALR or AUIPC, and pc0 is not beyond the end of m
NoTransferFrom(m, pc0) ==
    /\ pc0[1] = 0
    /\ pc0[2] <= MemLen(m)
    /\ \A k \in 0..(MemLen(m) \div 4) :
          pc0[2] + 4 * k + 4 <= MemLen(m)
          => LET d == decode(read_bw(m, U32(pc0[2] + 4 * k)))
             IN  d.res = "Ok" => d.op \notin TransferOps

\* execute() was called with no transfer instruction ahead of pc
StraightLine == call = "execute" /\ NoTransferFrom(old.mem, old.pc)

\* execute() was called with pc at a JAL x0, 0
SelfJump ==
    /\ call = "execute"
    /\ old.pc[1] = 0
    /\ old.pc[2] + 4 <= MemLen(old.mem)
    /\ read_bw(old.mem, old.pc) = JAL(0, 0)

\* C38: when no instruction from the starting pc on is a branch, JAL, JALR
\* or AUIPC, every tick of execute() either returns Ok with pc moved on by 4
\* or returns a trap, execute() makes at most (memory length - pc) / 4 + 1
\* ticks, and a tick does return a trap; with pc at a JAL x0, 0 every tick
\* returns Ok with pc unchanged, so execute() never returns.
C38_ExecuteTerminates ==
    /\ [](StraightLine
            => (/\ res # "panic"
                /\ res = "Ok" => pc = wrapping_add(old.pc, U32(4 * ticks))
                /\ ticks <= (MemLen(old.mem) - old.pc[2]) \div 4 + 1))
    /\ (StraightLine ~> (StraightLine /\ res \notin {"Ok", "panic"}))
    /\ [](SelfJump => res = "Ok" /\ pc = old.pc /\ InLoop = (ticks < MaxLoops))

\* the register-register and register-immediate ALU instructions
RTypeAluOps == {"Add", "Sub", "Sll", "Slt", "Sltu", "Xor", "Srl", "Sra", "Or", "And"}
ITypeAluOps == {"Addi", "Slli", "Slti", "Sltiu", "Xori", "Srli", "Srai", "Ori", "Andi"}

\* C39: a tick that executes an R-type or I-type ALU instruction, LUI or a
\* load leaves every general register other than rd, every CSR and every
\* byte of memory as it was; only rd and pc may have changed.
C39_AluLoadFrame ==
    Executed(RTypeAluOps \cup ITypeAluOps \cup {"Lui"} \cup LoadOps)
    => /\ \A i \in 0..31 : i # decoded.args.rd => regs[i] = old.regs[i]
       /\ csr = old.csr
       /\ mem = old.mem
       /\ mode = old.mode

\* LW x2, -4(x1) with x1 = 8 completed: x2 and pc changed, x1 kept its 8
C39_Witness ==
    /\ Executed({"Lw"})
    /\ res = "Ok"
    /\ decoded.args.rd = 2
    /\ regs[2] # old.regs[2]
    /\ pc # old.pc
    /\ old.regs[1] = <<0, 8>>
    /\ regs[1] = <<0, 8>>

---------------------------------------------------------------------------
(* Processor::sign_extend on its own: the function is applied to one 12-bit
   immediate.  call_args holds the argument and decoded the value returned. *)

\* the 12-bit immediates
Imm12Values == 0..4095

InitSignExtend ==
    /\ overflow_checks \in BOOLEAN
    /\ program = << >>
    /\ call_args \in { <<imm>> : imm \in Imm12Values }
    /\ LET p == Processor_new(VectorMemory_new(0))
       IN  /\ pc = p.pc
           /\ regs = p.regs
           /\ csr = p.csr
           /\ mem = p.mem
           /\ mode = p.mode
           /\ has_jumped = p.has_jumped
           /\ old = p
    /\ res = "Ok"
    /\ call = "new"
    /\ decoded = NoInst
    /\ setup = 0
    /\ ticks = 0

\* Self::sign_extend(call_args[1])
SignExtendCall ==
    /\ call = "new"
    /\ decoded' = [r |-> "Ok", v |-> sign_extend(call_args[1])]
    /\ res' = "Ok"
    /\ call' = "sign_extend"
    /\ UNCHANGED <<pc, regs, csr, mem, mode, has_jumped, overflow_checks, program,
                   call_args, old, setup, ticks>>

NextSignExtend == SignExtendCall

SpecSignExtend == InitSignExtend /\ [][NextSignExtend]_vars

\* C40: for every 12-bit immediate imm, sign_extend(imm) has the low 12
\* bits of imm and its top 20 bits all equal to bit 11 of imm: all set when
\* bit 11 is 1, and the value is imm unchanged when bit 11 is 0.
C40_SignExtend ==
    call = "sign_extend"
    => LET imm == call_args[1]
           v   == decoded.v
       IN  /\ \A i \in 0..11 : Bit(v, i) = (imm \div Pow2(i)) % 2
           /\ \A i \in 12..31 : Bit(v, i) = (imm \div 2048) % 2
           /\ imm < 2048 => v = <<0, imm>>
           /\ imm >= 2048 => v = <<\hFFFF, \hF000 + imm>>

\* sign_extend(0x801) returned 0xFFFFF801
C40_Witness ==
    /\ call = "sign_extend"
    /\ call_args = <<\h801>>
    /\ decoded.v = <<\hFFFF, \hF801>>

====
